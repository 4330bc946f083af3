# A TLA+ model of libswim

libswim is a SWIM failure detector written in C: every process keeps a *view*
of the other members of its cluster, probes them by datagrams, suspects and
finally declares dead those that stay silent, and spreads what it knows by
attaching gossip to its messages. This directory holds TLA+ modules translated
from the source, TLC configurations that check them on small instances, and
proofs checked by TLAPS that hold for instances of every size.

## The system

| Part | Source | What it does | Modelled in |
| --- | --- | --- | --- |
| membership view | `swim/state.c`, `state.h` | sorted array of members: add, suspect, notice, merge, delete | `SwimState`; the array in `ViewArray` |
| probe schedule | `swim/state.c` | shuffled round robin over the view | `ProbeSchedule` |
| node records | `swim/node.c`, `node.h` | status, incarnation, last seen, address, witness | `SwimState` |
| event handlers | `swim/process.c` | one handler for each of PING, PING_REQ, ACK, JOIN, LEAVE; gossip | `Swim` |
| cluster operations | `swim/cluster.c` | join, leave, heartbeat, suspicion, death, refutation | `Swim` |
| server loop, threads | `swim/server.c`, `server_pthread.c`, `examples/swim_server.c` | receive, handle, heartbeat; thread and stop flag | `Server`, `Swim` |
| datagram exchange | `swim/network.c` | choice of gossip, sending, receiving | `SwimState`, `Swim`, `Wire` |
| wire encoding | `swim/encoding.c`, `encoding.h` | bytes of a datagram | `Encoding`, `Wire` |
| events | `swim/event.c`, `event.h` | header and fields of each message | `Swim`, `Encoding`, `Wire` (partly) |
| example client | `examples/swim_client.c` | sends one event, prints the reply | `Wire` |
| text user interface | `examples/swim_server_tui.c` | members and log in two windows | `Screen` |
| logging, text | `swim/logging.c`, `utils.c` | log lines and printouts, for which names are looked up | the time lookups take in `Server`; the sink in `Screen` |

A process has one server thread. It sends a JOIN to a seed if it was given
one, then repeats: receive a datagram or time out, *notice* its sender
(`swim_state_notice`), run the handler for its type, run the heartbeat if it is
due, print the members if the last printout is more than five seconds old. The heartbeat pings one member and walks through the view: who is ALIVE
but was not seen for 60 seconds becomes SUSPECT and is pinged indirectly
through PING_REQ, who is SUSPECT and was not seen for 120 seconds becomes DEAD.
A process that hears gossip in which it is SUSPECT raises its incarnation, and
a record with a higher incarnation wins over any other; one that hears it is
DEAD exits. What makes this hard to test is that a record about a process may
be several hops and many seconds old when it is merged, may arrive twice or
after a newer one, and is merged with times written by other processes.

## Modules

`Swim` is the whole cluster, with everything below a handler taken as simple as
it can be: the view is a map, the schedule picks somebody, a datagram arrives as
it was sent, and the loop goes on. The other modules are about what is behind
each of these words.

* **`SwimState`**: the operators on one view. A view is a function from UUIDs
  to entries. One property of the array shows through and is modelled:
  `swim_state_add` returns a pointer to the slot that was last before `qsort`,
  which afterwards holds the entry with the largest UUID (`Added`). UUIDs are
  positive numbers, so that `uuid_compare` is `<`, and 0 is the cleared UUID.
* **`Swim`**: the cluster. Variables: `pc` (where each process is in its loop
  or how it ended), `incarnation`, `view`, `hbAge` (`last_heartbeat`),
  `downAge` (time since the process ended; history only), `net`. One action for
  each handler of `process.c`, for the heartbeat, the leave call, start, stop,
  and `Tick`, the passing of a second. An action does all that the handler
  does: the notice before it, every message, the gossip after it, `exit` and
  failed assertions (`NoticeFails`, `"aborted"`).
* **`ViewArray`**: the array of one view: slots, used or not, sorted anew after
  each addition, searched with `bsearch`, doubled by a `realloc` that may fail
  and does not clear. A pointer is the number of a slot and stays that when the
  slots move. `bsearch` may miss a key when the array is not sorted.
  **`ViewMap`** is what it promises: the map of `SwimState`, except that beyond
  the cleared slots a node may come with a witness, and without memory is not
  added. `MapOK` is the refinement, with `members` the map the slots in use
  stand for.
* **`ProbeSchedule`**: the index array of the schedule, its position and size,
  with additions that shift the indices, deaths, returns and a shuffle that
  finds no memory. **`ProbeRound`** is what it promises: rounds that come to
  every live member once. `RoundsOK` is the refinement, with `todo` the part of
  the array the position has not reached.
* **`Server`**: one process as its main program, its thread and a signal handler
  see it, in seconds. One member of the view is watched. The thread is blocked in
  `recvfrom` for `RECV_TIMEOUT` seconds at most, and in name lookups
  (`getnameinfo` in `swim_addr_str_r`) for `LOOKUP_TIME` seconds in each turn of
  its loop at most: `swim_state_print` looks up every member and every witness,
  and with `-v` so does LOG the peer of every datagram.
* **`Encoding`**, **`Wire`**: the bytes of events, on hosts of either byte order,
  and a server that receives the datagrams of servers and of the example client
  into one buffer that keeps what it is not overwritten with.
* **`Screen`**: the text user interface: a log ring and two windows, drawn by
  the server thread and by the handler of SIGWINCH on the main thread, without
  a lock.
* **`MCSwim`**, **`MCProbe`**, **`MCView`**, **`MCWire`**: instances for TLC:
  deployments, initial states of clusters that have formed, the events of a run.
* **`SwimProofs`**, **`SwimAddressProofs`**, **`ViewProofs`**, **`ProbeProofs`**,
  **`ServerProofs`**, **`ScreenProofs`**, **`WireProofs`**: theorems.
  **`SetInduction`**: induction over the natural numbers in the form the proofs of
  `Swim`, `ProbeSchedule` and `Wire` use it.

Operators whose name has a suffix (`Visited_DeadEarly`) are mutants: the
operator as a plausible mistake would have it. Replacing the original by one of
them makes the property it is listed with in `PROJECT.json` fail.

### Abstractions

* **Time.** In `Swim`, a stored `time_t` is an *age*, the seconds since, which
  saturates at `DeadAfter`: the code compares stored times only with each other
  and with now-60 and now-120. Two times older than `DeadAfter` are therefore
  not told apart. Clocks of different processes agree. `Server` and `Screen`
  have ages too, which saturate where every bound has passed. In `Server` time
  passes while the thread is blocked, in `recvfrom` or in name lookups; the rest
  of a turn takes less than a second. In `Screen` it passes at any moment, also
  while a thread draws.
* **Network.** A set of datagrams. Sending may fail to add one (loss), a
  datagram stays after it is received (duplication), and any of them can be
  received next (reordering), until it is older than `MaxLifetime`.
* **Gossip.** A message carries the whole view or, once the view has
  `SWIM_MAX_GOSSIP_SIZE` members, as many random picks; the number of copies of
  each record is kept, since every copy of a suspicion raises the incarnation.
  All copies of a record are equal and records about different nodes act on
  different entries, so merging is pointwise. Only the order of a record that
  aborts and of one that makes the process exit could matter, and either end is
  allowed.
* **Probe schedule in `Swim`.** A heartbeat pings any member that is not dead, or
  nobody when there are dead ones. `ProbeSchedule` has the order.
* **Assertions** are enabled: the build files do not define `NDEBUG`. In
  `ViewArray` an action whose assertion would fail is not taken; `Swim` has the
  failure.
* **Handlers are atomic** in `Swim`. `swim_cluster_leave` is an entry point for
  the application that nothing in the repository calls; it runs between two
  events here, although the code takes no lock.
* **Bytes.** `Encoding` writes an integer as the tuple of its bytes, the most
  significant first. `Wire` has the alignment and sizes of a 64-bit Linux build
  (`sizeof(Event)` 200, `sizeof(NodeInfo)` 168,
  `sizeof(struct sockaddr_storage)` 128).
* **Drawing.** A step of `Screen` is one assignment to the ring, one line of the
  log, or the list of members. A line is written at once. SIGWINCH is handled by
  the main thread, where Linux delivers it while `swim_server_wait` blocks. A
  curses call acts on the window there is.

## What is checked

`tlc -config <run>.cfg <module>` for each run:

| Run | Module | Instance | Shows |
| --- | --- | --- | --- |
| `pair` | `MCSwim` | 2 processes from the start, one may stop, one may leave; fair | `TypeOK`, `IncarnationNeverAhead`, `DeadIsSilent`, `ViewAdvances`, `LostJoinIsFinal`, `EndIsDetected` |
| `trio` | `MCSwim` | 3 processes, one has just stopped; indirect pings, witnesses, gossip about it; fair | `NotSeenAfterEnd`, `DeadIsSilent`, `EndIsDetected` |
| `join` | `MCSwim` | 3 processes join in a chain; gossip of 2 random picks, 2 incarnations | `NeverInOwnView`, `AddressIsTrue`, `RefutationOutranks` |
| `restart` | `MCSwim` | 3 processes, two of them one after the other at one address | `NotSeenAfterEnd`, `AddressIsTrue` |
| `rounds` | `MCProbe` | views of up to 3 members | `TypeOK`, `ProbedInTime`, `ShuffleIsFair`, `RoundsOK` |
| `view` | `MCView` | 3 nodes and the process itself, an array of 2 that grows to 4 | `TypeOK`, `ViewSorted`, `WitnessWasAsked`, `MapOK` |
| `server` | `Server` | timeout 2, lookups 1, printing interval 1, thresholds 2 and 8, fair | `TypeOK`, `HeartbeatInTime`, `StopInTime`, `DetectedInTime`, `StopIsObeyed` |
| `wire` | `MCWire` | 17 events and 5 commands, the sizes of the code, little-endian | `TypeOK`, `RoundTrip`, `NoStaleByte`, `CapacityFits`, `RawIsPing` |
| `screen` | `Screen` | ring of 3, terminals of 5, 8 and 15 lines, 5 messages, 3 members | `TypeOK`, `NoBlankLine`, `LogIsExact`, `StatusCatchesUp` |

The cluster:

* `IncarnationNeverAhead`: no view, header or gossip record is ahead of the
  incarnation its subject has reached.
* `DeadIsSilent`: a DEAD record, in a view or under way, was last seen
  `DeadAfter` seconds ago or earlier.
* `NotSeenAfterEnd`: no record about an ended process claims that it was seen
  after its end, however it was relayed.
* `AddressIsTrue`: a member is recorded under the address it sends from.
* `NeverInOwnView`, `ViewAdvances` (no recorded incarnation is taken back),
  `RefutationOutranks` (a refutation is above the suspicion).
* `LostJoinIsFinal`: a process that nobody has heard of and of which nothing is
  under way stays alone until another process starts.
* `EndIsDetected`: an ended process is in the end DEAD in the view of every
  other one that keeps running. See Fairness for what it rests on. `pair` has
  it for two processes from their start, with old datagrams as the only thing that
  puts it off; `trio` for two that tell each other about a third. Either may have
  heard of it later than the other, ask the other to ping it, be a witness, and
  renew the other's suspicion with its own.

`NotSeenAfterEnd` and `AddressIsTrue` hold among three processes and fail among
four (`ack_wrong_address` below): an ACK that is relayed to somebody who never
asked for it carries the address and the time of the relayer. From a state of
that run's trace in which the ACK is still under way, TLC reaches a violation of
`NotSeenAfterEnd`, when the process stops and a second passes
before the ACK is relayed.

The parts of a process:

* `RoundsOK`, `ProbedInTime`: live members are probed once per round, and at most
  2N-1 periods apart once the view has been left alone for a round.
  `ShuffleIsFair`: the Fisher-Yates loop draws every order and nothing else.
* `MapOK`, `ViewSorted`, `WitnessWasAsked`: the array is the map; it is sorted
  whenever it is searched; in the part that was cleared, a witness has asked for
  the very node it is recorded with.
* `HeartbeatInTime`, `DetectedInTime`, `StopInTime`, `StopIsObeyed`: bounds in
  seconds. With the values of the code and L seconds of name lookups in a turn of
  the loop, the thread runs a heartbeat every 11 + 2L seconds at least; a
  member that no event speaks of is no longer ALIVE after 71 + 2L seconds and DEAD
  11 + 2L seconds after the later of 120 and 71 + 2L; after a stop the thread
  handles one more event at most and exits within 10 + L seconds. If names are
  known at once these are 11, 71, 131 and 10 seconds. The code sets no limit on
  L: there are up to two lookups for every member at each printout, each as
  long as the resolver takes.
* `RoundTrip`, `NoStaleByte`, `CapacityFits`: an event of a server arrives as it
  was sent, decoding reads exactly the bytes received although it is given the
  whole buffer, and what the capacity check lets through fits the struct.
  `RawIsPing`: what the client sends never adds a member or a rumour.
* `NoBlankLine`, `LogIsExact`, `StatusCatchesUp`: both threads may draw at once and
  no line that is drawn shows a slot of the ring without a message (a line that
  is passed over stays undrawn, which the property does not count); a log drawn
  by one thread is exact; the members are complete again one interval and one turn
  of the loop after the last change, however long a thread takes to draw.

### What the comments say and the code does not

Three runs of `PROJECT.json` end in a counterexample to what a comment of the
source states.

* `ack_adds_unknown`: an ACK for an unknown node should add it "alive and seen"
  (`process.c:121`). Because of the pointer `swim_state_add` returns, the new
  entry stays UNKNOWN when its UUID is not the largest, and the next message
  from that node, or gossip about it, fails an assertion.
* `witness_forgotten`: a witness "needs to be notified" of the ACK of a suspect
  (`process.c:134`); the notice has already made the suspect ALIVE, so nobody
  is.
* `leave_ignored`: a leaving node is marked dead (`process.c:214`);
  `leave_uuid` is never set, so it is not.

The other statements that do not hold are kept with a configuration each, which
also ends in a counterexample. They mark where a property above stops: it is
stated with the exception that the counterexample shows.

| Configuration | Module | Statement | What the code does | Where a property stops |
| --- | --- | --- | --- | --- |
| `ack_wrong_address` | `MCSwim` | an ACK comes from the node it is for (`process.c:121`) | by the same pointer as above it may be relayed to the witness of another node, who adds the node under the relayer's address | `AddressIsTrue`, `NotSeenAfterEnd` |
| `dead_revived` | `MCSwim` | "a node declared dead can never refute it" (`cluster.c:162`) | a higher incarnation does | `ViewAdvances` is about incarnations, not status |
| `dead_kept` | `MCSwim` | "dead nodes will be cleaned up once they are old enough" (`state.c:113`; also `state.c:256`, and "eventually remove it from the cluster", `cluster.c:35`) | nothing removes an entry from a view: a dead member stays for good | `ViewAdvances` is about members that are in the view before and after a step |
| `sender_ignored` | `MCSwim` | "we need to add the sender to the view" (`process.c:263`) | `swim_state_notice` leaves a sender out that is not in the view | `LostJoinIsFinal`: only JOIN, ACK and gossip add a member |
| `suspicion_renewed` | `MCSwim` | "The time the node was suspected dead is also recorded and used to decide when a node should be declared dead" (`node.h:55`) | `suspect_time` is never read; what counts is `last_seen`, and gossip of another process that suspects the node too and saw it later makes it later (`state.c:180`) | `EndIsDetected` is about processes that have ended; one that runs may stay SUSPECT |
| `ping_req_skipped` | `MCSwim` | "one ping request to each node" (`cluster.c:128`) | the loop counts down to its random start and leaves members out | `EndIsDetected` needs no PING_REQ |
| `probe_late` | `MCProbe` | probes "at most 2N-1 periods apart" (`state.h:15`) | every addition starts a new round | `ProbedInTime` |
| `probe_nobody` | `MCProbe` | "-1 if no probeable node exists" (`state.c:391`) | also when the rest of the round is dead | `RoundsOK` has the step |
| `witness_garbage` | `MCView` | the witness "is set when a PING_REQ is sent" (`node.h:53`) | beyond 32 members it starts with what the memory held | `WitnessWasAsked`, `MapOK` |
| `ack_not_added` | `MCView` | "we add it" (`process.c:121`) | without memory for a larger array, NULL is dereferenced | `MapOK` |
| `heartbeat_late` | `Server` | "interval between heartbeats" is 1 (`defs.h:10`) | ten seconds without traffic | `HeartbeatInTime` |
| `header_time` | `MCWire` | the time survives encoding (`encoding_test.c:144`) | on a big-endian host the length overwrites half of it | `RoundTrip` is for little-endian hosts |
| `wire_endian` | `MCWire` | "little-endian format for integers" (`encoding.h:7`) | big-endian | none |
| `client_event`, `client_reply` | `MCWire` | the client sends an event and reads the reply (`swim_client.c:43`, `:123`) | it sends and reads the struct in memory, which the server takes for a PING, and whose reply it does not recognize | `RawIsPing` |

### Bounds

| Constant | Code | Runs | Why it is enough |
| --- | --- | --- | --- |
| `SuspectAfter`, `DeadAfter` (`Swim`) | 60, 120 | 1, 2 (1, 1 in `join`; 2, 3 in `trio`) | ALIVE to SUSPECT to DEAD with a second between, so that a message can arrive in either; in `trio` one process hears of the third a second later than the other and suspects it when the other is about to declare it dead |
| `HEARTBEAT_INTERVAL` (`Swim`) | 1 | 0 | a heartbeat each second, several within `DeadAfter` |
| `MAX_GOSSIP_SIZE` (`Swim`) | 10 | 1, 2, 3 | above the size of the view (all of it is sent) and equal to it (random picks, with copies); a view larger than it only in `ack_wrong_address` |
| `MAXPINGREQ`, `MAXLEAVE` | 5, 5 | 2, 1 | the size of the view, and less |
| `MaxIncarnation` | 2^32 - 1 | 0, 1, 2 | one refutation, and in `join` two, so that two copies of a suspicion are accepted; none in `ack_wrong_address` |
| `MaxDatagrams` | none | 2 to 4 (up to 6 in counterexamples) | a stale and a fresh datagram at once; in `join` a JOIN, its forwards and an ACK. The 3 of `restart` are too few for a relayed ACK |
| `MaxLifetime` | none | 1, 2, 3 (0 in `ack_wrong_address`) | above `DeadAfter` nothing expires, since ages saturate there (`join`, `restart`); up to it, datagrams expire (`pair`, `trio`) |
| `MaxView` | none | 3 (4 in `probe_late`) | a dead member between two live ones; several rounds, disturbed in the middle |
| `Cleared` | 32 | 2 | the array is filled, doubled once and sorted in every order; 3 of the 4 slots are used |
| `Infos` | any | 3 statuses, 2 incarnations | records of an older, the same and a later incarnation |
| `RECV_TIMEOUT`, `PRINT_INTERVAL`, `LOOKUP_TIME`, thresholds (`Server`) | 10, 5, none, 60, 120 | 2, 1, 1, 2, 8 | small values at which every bound is reached, and the threshold of death comes after a suspicion that is as late as can be; the proofs cover the others |
| `Events` | any | 17 | every type, no gossip, one record, two, and the full ten; an address and none |
| `LOG_RING_SIZE`, `MaxMessages` | 256, none | 3, 5 | the ring wraps and is overwritten again |
| `Terminals` | any | 5, 8, 15 | a log window without a line, smaller and larger than the ring; a status window without room and with room for some |

A step that would put more datagrams into the network than `MaxDatagrams` can
still be taken, with the excess lost. A step that would exceed `MaxIncarnation`
is not taken.

### Fairness

`EndIsDetected` assumes weak fairness of `Tick` and of
each heartbeat that is due. The loop reaches the heartbeat after every event,
`recvfrom` returns after ten seconds at the latest (`SO_RCVTIMEO` in
`swim_state_init`) and a name lookup when the resolver gives up, which
`HeartbeatInTime` turns into a bound. No datagram need ever be delivered.
`StopIsObeyed` assumes that the operating system schedules both threads and that
time passes; nothing of signals or traffic.

One more assumption is needed for `EndIsDetected`, and it is about the network,
not the code: datagrams expire. With `MaxLifetime = 3` in `pair.cfg`, so that
nothing expires, it fails: one old datagram of the ended process, delivered again
after every suspicion, makes it ALIVE with its old `last_seen`, and the
heartbeat never finds it SUSPECT twice in a row.

`trio` starts when the third process has just stopped (`Bereaved`), which is
where the question begins: with all that may have come before, TLC does
not finish the three processes in twenty minutes. The states it starts from are reached by
a cluster whose members ping each other within a second; they differ in who has heard
of the third, how long ago, and in what is still on its way. The property also holds
there with `DeadAfter = 4`, and with `MaxLifetime = 2`, which take several minutes each.
It cannot hold in every cluster: an entry that `swim_process_ack` left UNKNOWN
(`ack_adds_unknown`) is skipped by the status loop and never times out. Nor need
the suspicion of a process that runs come to an end: as long as another process
hears of it and suspects it again, `last_seen` moves on (`suspicion_renewed`).

## What is proved

### The cluster (`SwimProofs`)

For every finite set of processes, every deployment and all bounds, from the
assumptions named in `SwimState` and `Swim` (UUIDs are positive numbers,
`SuspectAfter <= DeadAfter`, the gossip size is positive, the bounds are natural
numbers, every process has an address, and the zero-length address is none):
`TypeCorrect`, `IncarnationSafe`, `DeathSafe`, `SelfExcluded`, `ViewsAdvance`
and `RefutationWins`, which state `TypeOK`, `IncarnationNeverAhead`,
`DeadIsSilent`, `NeverInOwnView`, `ViewAdvances` and `RefutationOutranks`.

All rest on one inductive invariant, `IInv`. What a view holds was copied from
gossip and headers, and gossip was copied from views, so none of the properties
can be shown for views alone: `IInv` says the same of every view
(`GoodView`) and of every datagram (`GoodEvent`). It adds two facts about
arguments: an ACK or a JOIN names a process, and a LEAVE names the cleared
UUID. The second is needed for `DeadIsSilent`: if a LEAVE named the leaver, as
the comment intends, `swim_state_del` would make DEAD what was seen a moment
ago, and the property would need an exception for those that left.

The first half of `SwimProofs` shows that each operator of `SwimState` keeps a good view good and takes no
incarnation back, among them `MergeGood` and `NoticeGood`, that gossip filled
from a good view is good and holds at least one copy of each record
(`FillGossipGood`), and that a non-empty view has a last slot (`AddedInView`).
The second has a lemma for each action, all with the same conclusion
(`GoodStep`): the processes keep their part of the invariant, incarnations and
views only grow, and the datagrams are good for the incarnations they were sent
with. `GoodMonotonic` carries the last over to the incarnations of the next
state. The theorems are about `Spec`; the formed cluster that some configurations
start from (`Formed`) is what joins of the others through one seed lead to.

### Addresses, times and lost joins (`SwimAddressProofs`)

`AddressIsTrue` and `NotSeenAfterEnd` hold among three processes and fail among
four, and the proofs say exactly where the line is. `Truthful` asks of every view
and every datagram that addresses are the owner's and that no time is later than
the end of the process it is about; a JOIN is the exception, whose header and
address are of the joiner whoever forwards it. For each action a lemma says what
it lets into a view and what it sends, for any sets of addresses, times and
witnesses the view kept to before (`KeepsTo`, `Fits`, `Reaction`), so the same
lemmas serve `Truthful`, `Relayed` and the isolation below. Only one thing breaks
`Truthful`: `swim_process_ack`, which takes the sender's address and time for
those of a node it does not know. So

* `AddressesTrue` and `EndedNotSeen`, for any number of processes, also when
  they share addresses one after the other: the two properties hold in every
  behaviour in which an ACK about a stranger comes from the stranger
  (`AckIsFirstHand`);
* `ThreeFirstHand`: among at most three processes with addresses of their own
  this is always so. `Relayed` is the invariant: a PING_REQ comes from somebody
  who knows the node it is about, so the witness of an entry knows its node. An
  ACK that the pointer of `swim_state_add` sends to the witness of another node
  reaches somebody who is neither the relayer nor that other node: among three,
  the node the ACK is about. A fourth process need not know it
  (`ack_wrong_address`);
* `ThreeAddressesTrue` and `ThreeEndedNotSeen` follow.

Three processes of which two share an address (`restart`) are covered by the first
two theorems but not by `ThreeFirstHand`: for them the two properties are
model-checked only.

`LostJoinFinal` states `LostJoinIsFinal`, for any number of processes. A process
nobody has heard of is `Isolated`: its address and UUID are in no view and in no
datagram. Nobody can send to it, and itself it has nobody to send to. The
proof needs that no other running process has its address (`OneBinds`), since
`bind` fails on an address in use.

### The view (`ViewProofs`)

For every set of positive UUIDs, every set of records that messages may carry and
every size of the first array: `ArrayType`, `ViewSortedHolds`,
`WitnessWasAskedHolds`, and `MapImplemented`, that the array implements the map.
The invariant `ArrayInv` adds to the order of the slots in use that those which
are cleared and not in use have no witness; without it an addition could not be
shown to give the map's entry. `AddFacts` says what an addition and its sort make
of the map, `LastIsAdded` that the slot the pointer is to holds the largest UUID,
and the step of each function is a step of the map by `StepMaps`. Finiteness of the
views, which the map's cardinality needs, comes from the array.

### The probe schedule (`ProbeProofs`)

For every `MaxView`: `ScheduleType`, `ProbedInTimeHolds` and `RoundsImplemented`.
`ProbedInTime` says nothing of where in the round a member stands, which its wait
depends on; `GapInv` does: behind the position a member has waited for fewer
periods than positions went by since its own, ahead of it for what was left of the
last round as well.

`ShuffleFair` states `ShuffleIsFair`: for a view of any size the loop of
`swim_probe_shuffle` can leave every order and nothing else. The argument is an
induction over the iterations. After k of them every array is an order, and for
each order there is an array that agrees with it in the last k slots: iteration
k + 1 swaps into its slot the entry wanted there, which is still among the
first ones.

### The server (`ServerProofs`)

For every timeout, interval, lookup time and threshold (`ServerAssumption` asks for
natural numbers, and for a positive `SuspectAfter`): `ServerType`,
`HeartbeatInTimeHolds`, `StopInTimeHolds`, `DetectedInTimeHolds`. `ThreadInv` ties
the age of a stop to the time the thread has been blocked in this turn, in `recvfrom`
and in lookups. `BeatInv` does the same for the age of the last heartbeat, place by
place: a turn may find it not yet due and then print, so the lookups of two turns
count, which is where the second `LOOKUP_TIME` of `MaxGap` comes from.
`MemberInv` says what the heartbeats since the last event about the member must
have seen, for none, one and two of them. If lookups are so slow that a suspicion
comes after `DeadAfter`, death has to wait for the heartbeat after it: hence
`DeadDue`.

### The screen (`ScreenProofs`)

For every size of ring and terminal (of five lines at least) and every interval:
`ScreenType`, `NoBlankLineHolds`, `LogIsExactHolds`, `StatusCatchesUpHolds`.
`RingInv` says which message each slot of the ring holds, in the middle of
`tui_log_sink` too; `LinesInv` that a thread only draws lines that there are;
`LogInv` what a thread that draws alone has drawn so far; `StatusInv` that the
members are in the window unless something changed since the last printout, or a
thread has listed them and has still to add the number of the others.

### The wire (`WireProofs`)

For all events with at most `MAX_GOSSIP_SIZE` records, any number of datagrams
before, and all sizes that leave room (`SizeAssumption`, `RoomAssumption`), on a
little-endian host: `WireTypes`, `WireRoundTrip`, `WireNoStaleByte`,
`WireCapacityFits` and `WireRawIsPing`. The sizes of the code satisfy
`RoomAssumption` without a byte to spare: 11 records are let through for a PING,
and 200 + 11 * 168 is 2048. That the host is little-endian is a hypothesis of the
theorems, not an assumption on the constants: on a big-endian one `RoundTrip` is
false (`header_time`).

The argument is about where the parts of an event lie. `Holds(b, k, x)` says that
the bytes `x` lie in `b` after the first `k`; it splits along the concatenations of
the encoder (`HoldsConcat`), and a decoder returns what is held where it reads.
The header is the exception: its length is stored over the upper half of the time,
where a time of 32 bits has the zeros that the length, being 36, has as well. For
the gossip both sides are recursive: `GossipBytes` gives the bytes of the first n
records as a function of n, and an induction over n shows that the decoder has
read n records when it is behind them. The invariant of the steps, `InTransit`,
says that the datagram under way is the encoding of the event it stands for; the
buffer needs none, since what an older datagram left lies behind what is read.

### Induction

The induction theorems of the library have an operator as a parameter, which the
provers cannot instantiate. `NatSetInduction` takes a set of numbers instead: it
follows from the least element of its complement (`LeastOf`), which
the well-founded order of the naturals has. A property to be shown by induction is
written as the set of numbers that have it. That a recursive function exists is
shown the same way, by extending the function on the first n numbers
(`RunsExist`, `EncodedExists`).

### Only model-checked

* `EndIsDetected`, `StopIsObeyed`: liveness is beyond this
  proof system.
* `NotSeenAfterEnd` and `AddressIsTrue` where processes share an address one after
  the other (`restart`): two of the processes may then hear the same relayed ACK,
  and `Relayed` no longer says which one knows the node.

## Not modelled

* `swim/logging.c`, `swim_event_print`, and of `swim/utils.c` and `swim_state_print`
  all but the time that name lookups take: text for people, no state.
* Command-line parsing and name resolution of the example programs; what they
  result in (the address to join, the command) is an input of the models.
* `swim_cluster_leave` at the same time as the server thread: nothing calls it, and
  its races are on memory that `realloc` has freed. The same goes for a window that
  the handler of SIGWINCH has deleted while the server thread draws into it, and for
  a view that moves while the handler reads it: what happens then is not determined
  by the code.
* `malloc` failing for an event or for the first array: the next access is a crash.
* The wrap-around of the incarnation after 2^32 suspicions.
* The assertion of `swim_decode_varlen` on a length that is too large: none of the
  senders of `Wire` writes one.
* Clocks that disagree, and time that goes back.
