# A verification development for strong-ipc

strong-ipc passes messages and capabilities between processes over unix
`SOCK_SEQPACKET` sockets. A `Ref` is a capability to send to one node; a `Node`
receives and feeds a handler. These modules model the crate under `src/src/` and
the programs under `src/examples/` that measure and test it, TLC checks them on
small instances, and TLAPS proves what holds for every instance. Paths below are
relative to `src/src/` unless they say otherwise.

## The system

| part | state | operations | works with |
|---|---|---|---|
| send path: `Ref::send`, `Ref::try_send` (`capability.rs`), `Outbox` and its drain task (`outbox.rs`) | `OnceLock<Outbox>`, the counter `pending`, a channel of 8 slots with its wait queue, the drain task | send, try_send, build, push, reserve, drain | the socket, the receive loop |
| node: `Node`, `recv_loop` (`node.rs`), `Death` (`death.rs`), `Ref::death_notification` | the abort handle, the task and what it owns, the `dead` flag, waiters | new, drop, to_service, the two death notifications | tokio, the socket, local handlers |
| registry: `REFS` (`capability.rs`) | map from inode number to `Weak<RefInner>`, strong counts | from_fd, clone, drop | the kernel's inode numbers |
| local handlers: `LOCALS` (`local.rs`, a feature) | map from inode number to `Weak<handler>` | file, unfile, local_handler | the node's task, the kernel's inode numbers |
| file system binding: `RefFsBinding`, `Ref::connect` (`capability.rs`, `wire.rs`) | lock file, socket path, listener, accept task | new, drop, accept, connect | the file system, other processes |
| syscall layer (`wire.rs`), messages (`message.rs`), errors (`error.rs`) | none but the descriptors | one syscall each | all of the above |
| descriptor limits (`wire.rs`) | the rlimit pair of the process | fd_limit, set_fd_limit, maximize_fd_limit | the kernel, other processes |
| frame loops (`examples/paced.rs`, `timeline.rs`) | the numbers sent and not yet answered, samples, counts of losses | warm up, send, await or collect, report | a server process |
| benchmark (`examples/bench.rs`) | the phase, counters shared with the reply handler | latency, throughput, quiesce, probe, the descriptor watch | a server process |
| cost decomposition (`examples/fdcost.rs`) | the row it measures, a forked child | fork, exchange, wait; round trips | a child, a server process |
| ordering check (`examples/ordering.rs`) | four shared atomics | count, check, wait, verdict | the library it judges |
| small examples (`echo`, `bound_*`) | none | one exchange | each other |

What is hard: threads that share a `Ref` decide from one relaxed load between an
inline `sendmsg` and a queue; a waiting `send` can be dropped at any moment; the
task of a node ends by hangup, abort, panic or error and what it owns goes step
by step; inode numbers are reissued by the kernel while a registry still uses
them; two processes share a path with a lock file, and crash; a limit is read
with one system call and written with another. The examples have hazards of their
own: replies that arrive after their wait timed out, phases that leave traffic
behind for the next, a child that must see an end of file. The list, with lines,
is under `hazards` in `PROJECT.json`.

## Modules

`SendPath` is the core. A sender is a thread or task with a `Ref`; a ref is one
`RefInner`. A step is one access to shared state, in the order of the code:

| action | code |
|---|---|
| `Call`, `Check`, `SendInline` | the size test, the load of `pending`, `send_now` in `try_send` |
| `GetOutbox`, `BuildFails`, `SetOutbox` | `RefInner::outbox` and its race |
| `Claim`, `Push`, `Unclaim` | `Outbox::push` |
| `Reserve`, `Wake`, `ClaimSlot`, `SendPermit`, `AbortSend` | `Outbox::send`, and the future being dropped |
| `DrainRecv`, `DrainSend`, `DrainRelease`, `DrainExit`, `DrainClosed` | `Outbox::drain` |
| `Receive`, `PeerDown`, `EndOfFile` | the far end: `recv_loop` as the send path sees it |
| `Drop`, `Reacquire` | a clone goes; a process gets the capability a second time |

`FifoLink` is what the send path promises: a link that is up until its node goes,
keeps what it accepted, and hands over each sender's messages in order. It has no
queue; the order is in its guards. `SendPath` implements it with `up`, everything
accepted and not handled, and the set of handled messages for its three variables
(`ImplementsLink`).

`NodeLife` is one node: handle, refs, the task with its suspension points and the
order of its drops (`MayDrop`), `Death::wait` with `enable()` before the look at
the flag, and `death_notification` with its kernel question before the
registration. The task is cancelled only where it is suspended, as tokio does. A
message has a payload or is empty, and `Recv` does with an empty one what the code
does: it ends the loop with Ok, as the end of the socket would, with whatever is
queued behind it. `Fragile` holders may lose their runtime while they wait
(`RuntimeGoes`): the error of the reactor is then reported as a death (`Hangup`).

`RefRegistry` is `REFS` on several threads. Operations on the map are atomic (they
hold a shard lock); the strong count reaching zero, `RefInner::drop`, and the
closing of the descriptor after it are three steps; the kernel gives a number out
again as soon as no descriptor names its socket. `tail` is a socket kept open by
the drain task of a `Ref` that went.

`LocalHandlers` is `LOCALS`: an entry is filed by `new_raw`, taken out by
`LocalEntry::drop` when the loop's future is already gone. Handlers are addresses,
given out again when neither strong nor weak references are left.

`FsBinding` is the lock file (an inode, with the lock on the open file), the
socket path, the accept loop, and the three-step drop: unlink both names, then
unlock, then tell the task to stop. A client that waits may leave; its connection
stays in the backlog, and the error of answering it is ignored, as in the code.

`FdLimit` is the rlimit pair. Each function is its `getrlimit` and its `setrlimit`,
two steps with others in between, and `AsCount` and `AsRlim` are the conversions,
with `USIZE_MAX` below `Infinity` for a 32 bit target. `Setrlimit` refuses what the
kernel refuses, in the kernel's order.

`EchoLink` is what the measuring examples share: the server process with its echo
handler (`ServerTakes`, `FindsReply`, `Replies`) and its raw listener, the link each
way with room for `Window` messages, the client's ways to send, wait and quit, and
`bound_client`. A link is a queue in order, which is what `SendPath` implements; the
first `Room` of it are the buffer of the socket. A reply that finds the buffer full
builds the outbox of the cached `Ref`, whose duplicate descriptor counts (`boxed`,
`held`); the raw connection has the buffers only.
`FrameClients`, `BenchClient` and `FdCost` extend it with a client each;
`OrderingCheck` stands alone, since there the link is what is judged and may make
one mistake (`Blunder`). `Examples` composes the five: `prog` is the program that
runs, chosen at the start.

The `MC` modules have the symmetry sets, where a run uses one, or, for `Examples`,
the command lines that are run. The proofs about a module `M` are in `MProofs`;
`SendPath` has two such modules: `SendPathProofs` (types, the count, slots) and
`SendPathOrderProofs` (loss, order, refinement).

Definitions with a suffix, such as
`Unclaim_Forgets`, are deliberately wrong forms of the action before the underscore:
each property is shown to fail when one of them takes its place.

## Runs

Passing:

| run | shows | bounds |
|---|---|---|
| `SendPathFaults` | types; `pending` is exact; slots of the channel are neither lost nor made up | 2 senders, 2 refs, all kinds of message, all faults |
| `SendPathLink` | Closed means gone; nothing lost, nothing kept; each sender in order; `FifoLink` is implemented; every call returns, the fast path opens again, what was accepted is handled, the last drop hangs the node up | 2 senders, on one ref or on two; the peer may go, futures dropped |
| `NodeLife` | the latch, the hangup and the waits agree; the node dies when it should, and all waiters hear of it; a loop that returns Ok has handled what came before, and what is sent to a node that stays is handled | 2 holders, one of whose runtimes may go, 2 waiters, 2 messages, empty or not, all faults |
| `RefRegistry` | one live `Ref` per socket, entries that mean what they say, `from_fd` wraps its socket | 2 threads, 2 sockets, 2 numbers, 3 cells; fstat may fail |
| `LocalHandlers` | a receiving node is found, never through a ref to another node; entries go with their loop | 3 slots, 3 handlers, 3 numbers; foreign sockets, fstat may fail |
| `FsBinding` | short of a drop, one owner of the path, which leads to it, whatever a crash left; no client is stranded, drops included | 2 binders, 2 clients, a backlog of 1; all events |
| `FdLimit` | a call never raises the ceiling, Ok tells the truth, a limit read and set again is not a lower one | 2 threads, limits up to 3, counts up to 2, no privilege; others move all three limits |
| `Examples` | round trips and counts are of what they claim to be, the server can answer and gives descriptors back, a PASS is earned, every program ends | 15 command lines; socket buffers of 1, a link of 2, bursts of 2 and 3, 2 frames, 2 rounds, floods of 4, 5 ordered messages; the server may die |

One slot and one message of socket room make each of the limits of `SendPath` bite
at once: with two calls per sender a sender can have one message in the socket, one
in the hand of the drain task or in the channel, and others wait behind it. Two
senders suffice for each race between a load and a push, and for a wait queue with
somebody behind the one who gives up; for more of either the proofs speak. Two
threads suffice in the registry because its races are between one drop and one
arrival; the third cell is the stray one outside the registry (`NoStray` bounds
these). Three slots give a number three successive owners. A backlog of one has a
full and an empty state. In `FdLimit` `USIZE_MAX` is below `Infinity`, so each
conversion has a case where it loses something; the 64 bit case, where the two are
equal, is covered by the theorems. In `NodeLife` two messages are an empty one and one
before or behind it. In `Examples` a burst of three is larger than the link, so that
senders wait for room, and larger than both buffers of the raw connection, one of two
is not; two frames let a reply that is late for one arrive in
the next; the phases of `bench` and the rows of `fdcost` are in the order of the
code, for one payload size. `Budget`, the threshold of the descriptor watch, is 3: it
trips only while the server has an outbox on its reply `Ref` and a message with a
capability in hand, and the phases of `bench` otherwise run to their ends.

Counters that would grow without end are bounded by `MaxSends` in `SendPath` and
`NodeLife` and by `FloodMax` in `Examples`. `SendPath` and `NodeLife` end in explicit
idle steps, so a deadlock is an error in every run but `Examples`, whose programs
come to their end.

Violations, each of a sentence in the repository:

| run | what happens | sentence |
|---|---|---|
| `SendPathManyFds` | a message over `MAX_FDS` ends the drain task; others are told Closed by a live node's ref | `capability.rs:445`, `error.rs:95` |
| `SendPathReacquire` | a ref dropped with a backlog and received again overtakes it | `capability.rs:447`, `outbox.rs:33` |
| `LocalHandlersShared` | two nodes with one `Arc` share an address, and a late unfiling takes the wrong entry | `local.rs:55` |
| `FsBindingDrop` | a drop unlinks the socket of the binding made meanwhile | `wire.rs:182`, `capability.rs:194` |

Three more situations are admitted by the constants and break the same properties;
no run of their own shows them:

- `"build"` in `Faults` of `SendPath` breaks `ClosedMeansGone`: at the descriptor
  limit the outbox cannot be built, and the send reports Closed (`capability.rs:504`).
- `"realloc"` in `Situations` of `LocalHandlers` breaks `FoundWhileReceiving`: the
  address a `LocalEntry` remembers is given out again once the entry has been
  overwritten and the loop's future is gone.
- `"foreign"` makes `LocalHandler(n)` give the handler of a dying node for a socket
  that leads elsewhere and has its number (`local.rs:16` says `None`);
  `NeverAnothers` therefore speaks of refs to nodes of this process.

The passing runs leave exactly these situations out, by their `Faults`,
`Situations` and `Kinds` or, for drops, by the history variable `dropped`.

## Fairness

`SendPath`: a thread or task that can take its next step does
(`WF(SenderStep)`, `WF(DrainStep)`), the receive loop receives what is there and
sees the end of the stream. That the loop keeps receiving assumes handlers that
return. Nobody is obliged to call, give up, or drop, and no fault is fair.
`NodeLife`: the runtime polls what is ready, under the same assumption on handlers;
waiters and watchers that were woken run. `FsBinding`: the accept task is polled.
`Examples`: the client, the server with its link, the forked child and the tasks of
`ordering` go on while they can; that the server dies or the link errs is not fair,
and neither is a deadline in `bench`: floods are bounded by `FloodMax` instead.
Weak fairness is enough everywhere: a woken task stays runnable.

## Proofs

Every state invariant that a run checks is also proved, for all values of the
constants; so are the action properties and the refinement. Liveness is not: it
needs fairness and stays with TLC. For each module
an inductive invariant is shown to hold initially and to be kept, with a lemma for
each action or group of actions; the theorems follow from it.

`SendPathProofs`, every fault admitted. `TypeCorrect` (`fetch_sub` never takes
`pending` below zero) and `PendingIsExact`. Neither is inductive: `PendingExact`
depends on who may raise and lower the counter, so `Accounts` adds that a sender in
the middle of a call is alive (`BusyIsLive`: only then does the ref's channel have a
sender and the drain task not end as closed), and that the wait queue of a ref holds
each of its parked senders once and nobody else (`WaitersOK`: only then does a freed
slot move one sender to `assigned`). The sets of claimers are finite sets whose
cardinality moves by one (`ClaimersMore`, `ClaimersFewer`, `ClaimersSame`).

In the same module `NoSlotIsLost`: free, filled and owned
slots add up to `DEPTH`. `Owned` counts for any assignment of control points, so
that a step that moves two senders, the one who gives a slot up and the one who gets
it, is taken apart into two.

`SendPathOrderProofs`. A step does one of seven things to the messages on their way
(`Effects`); everything after that lemma is about effects and not about actions.
`Flow` says that messages come from their senders and are in one place. On top of it

- `NothingIsLost`, if every message fits one control message (`FitsControl`):
  `EndsDown`, a drain task that has a ref ends only with the node, and `Kept`, what
  was accepted is handled or on its way.
- `ClosedIsNotPremature`, if moreover `"build"` is not in `Faults`.
- `SendersStayInOrder`, if nobody regains a dropped capability (`NoReacquire`):
  a sender's backlog is on its own ref (`Own`), one about to send inline has none
  (`InlineFirst`), and handled, socket, hand and queue are in order (`Line`).
- `SendingIsALink`, if both: initial states and steps map to those of `FifoLink`.

The assumptions are exactly what the violation runs break.

`NodeLifeProofs`, every fault admitted: `HangupHandlesAll`, `DeadHasHungUp`,
`DeathIsTrue`, `DeadHandlesNothing`. The invariant says what the task owns at each of
its points, that it lets go in the order of its locals, that what was read was
handled and had a payload as long as the loop has not returned Ok, and for what
reason the loop can have ended. `DeathIsTrue` excepts watchers whose own runtime has
gone, since the code reports a death to them on purpose.

`RefRegistryProofs`: `OneRef`, `LiveStaysFiled`, `EntriesNameTheirSockets`,
`FromFdWrapsItsSocket`. Two open sockets have two numbers, what a thread learned from
`fstat` stays true while it holds the descriptor, and a dead cell belongs to the
thread that drops it.

`LocalHandlersProofs`: `FindsNobodyElse` and `EntriesHaveLoops` in every situation;
`ReceiversAreFound` under `OwnArcs`, that each node has an `Arc` of its own and no
address comes back early.

`FsBindingProofs`: `LockHasOneOwner`, `BindingIsReachable`, `BindSucceeds` as long as
none is dropped: everybody has the one lock file open that the name leads to, so its
lock is the path's. `NobodyIsStranded` holds with drops: each connected client is in
one hand (`InHand`), a place in a backlog or a task's.

`FdLimitProofs`: `ReportsAreTrue`, `RestoreLosesNothing`, and `CeilingNeverElsewhere`
without privilege. A thread between its system calls is about to write the hard limit it saw
when the call began.

`ExamplesProofs`, for every set of command lines and a server that may die at any
time. Under everything else is `LinkIsWellFormed`: each client is at a point of its
own program and in a row of its table (`Placed`), and the link has its types. From
there a step is a client's, which does one of five things to the link (`Touches`), or
one of the link (`LinkMoves`), so that most lemmas need not know the programs.

- `CapsAreReclaimed`: the server has one reply socket at most, its duplicate if there
  is an outbox, and the descriptors of the message in hand. Every kind of step that
  moves one of the three says by how much (`TakesFacts`, `FindsFacts`,
  `RepliesFacts`); a `Ref` is boxed once, whatever the number of replies that wait.
- `EveryMessageFindsItsReply`: `AlwaysAnswerable` looks at the message in hand only;
  `Prepared` says of each queued message that needs the reply Ref that one which
  leaves it is ahead. A client sends such a message when the handler is `Primed`, by
  its Ref or by a message still on its way. For `fdcost` the order of the rows is
  needed (`RungFacts`), for `bench` that a probe has a capability (`PhaseFacts`).
- `RoundTripsAreOwn`: whenever a client times a round trip at most one message is
  under way (`Single`), and its number is the one the client waits for (`Flying`), on
  each of the three kinds of connection (`Calm`). For `bench` this is that a phase
  which leaves replies behind is followed by `quiesce`, and that after `quiesce`
  nothing is under way. `Recent` adds that nothing on the link is older than the flood.
- `VerdictIsSound`: each counter of `ordering` speaks of the messages the handler has
  finished checking for it (`Counting`), and main reads the count of messages first,
  so that what it reads afterwards is about all of them but the last (`Loaded`).

The assumptions on constants are those of the modules: a positive `DEPTH` and
`BACKLOG`, `None` apart from everything else, and the like.

## What was seen on the way

Not properties of a run, but what the modules admit and a reader should know.

Descriptor limits. The doc of `set_fd_limit` (`wire.rs:101-102`) says `EPERM` above
the hard limit and `EINVAL` past `nr_open`; the kernel, as `Refusal` models it, says
`EINVAL` and `EPERM`. "Only the soft limit moves" (`wire.rs:101`) and "the hard limit is
left alone" (`wire.rs:139`) are not true of the code: a hard limit that another process
raises between the two system calls is put back, for good if there is no privilege.
No run of its own shows this; the model has that step, and `CeilingIsAsRead` states
what is left of the two sentences: a call never raises the hard limit, and lowers it
only to where it was when the call began. If `fs.nr_open` is below the hard limit
every set fails. With `Privileged` a lowering that comes in between is undone, which
`CeilingIsAsRead` does not allow; the run and the theorem are about unprivileged
processes.

Node life. An empty message of any holder ends the loop with Ok, although refs are
left, and what is queued behind it is lost; the comment on `recv_loop` and
`tests/lifecycle.rs:313-331` say so, and `HangupIsComplete` and `SentIsHandled` except
exactly that. An error of the reactor is reported as the death of a node that may be
alive, as `wire.rs:429-431` says.

Examples.

- `paced --sequential` takes the next reply for the last message's, so after one
  timeout every round trip it times may be of another message; `RepliesAreOwn`
  excepts that mode once a wait has timed out.
- `paced` counts a reply that timed out as lost twice (at the timeout and at the end of
  the frame), and messages of the burst that were never sent as well.
- `timeline` leaves a late reply for the next wait, which then discards it and with it
  its own sample, and so on for every later one. A stamp `t0b` that is later than the
  server's does not show that clocks disagree: the handler may have begun before the
  client read its clock (`overtaken`).
- A program can wait for ever in three ways. They are `Stuck`, which `ProgramsEnd`
  excepts and the run reaches:
  - `paced --raw`, pipelined, sends a whole burst before it reads a reply
    (`paced.rs:483-494`) while the server waits in `send` on the same connection. A
    burst larger than both buffers blocks both sides, with no timeout at all; that the
    program gives up "rather than hanging the run" (`paced.rs:40`) is true of its
    waits for replies only.
  - A raw reply that `paced --raw` gave up on stays in the socket, and the drain after
    the warmup does not look there. Enough of them block both sides in the same way.
  - `bench` and `fdcost` wait for replies without a limit, so a server that dies first
    leaves them waiting.
- A reply that finds no room builds the outbox of the server's cached `Ref`, and with it
  a second descriptor that stays as long as the `Ref`: at rest the server has two
  descriptors of its client's reply socket and not one.
- The descriptor watch of `bench` looks at the client's own table as well, from the
  same places. There nothing accumulates: a message carries a clone of the `Ref` and no
  descriptor, so the model has the server's count only.
- The raw listener is bound after the node; `paced` and `bench` connect to it once and
  panic if they are too early, `fdcost` tries again.
- That 200 ms of silence end the traffic, as `Client::quiesce` has it, is an assumption
  on the server's speed (`Silence`).
- `ordering` counts a message before it checks it. `main` may therefore read the
  counters before the last message is checked and pass although that is bad, or
  before its capability is counted and fail although nothing is: `SoundVerdict`
  says of a PASS that every message and capability came, and that all but the last
  were in order and unspoiled.

## What is not modelled

- Payload bytes, credentials, control-message layout, truncation of messages from
  peers that do not use the crate, `Debug` and `Display`: data, not control. A
  message is its sender, its number and which limit it breaks. A message with no
  payload is in `SendPath` and `NodeLife`, since the receive loop takes it for a hangup.
  One that is truncated is dropped and the loop goes on.
- Errors of `sendmsg` other than would-block, a peer that is gone, and too many
  descriptors (`ETOOMANYREFS`, `ENOBUFS`); the code treats them like the latter two.
- A message holds its own clones of the refs it carries; `RefRegistry` has the
  descriptors in flight as `abroad`.
- Relaxed atomics are taken as sequentially consistent: `pending` is one location,
  and `Death::dead` is read after a lock of `Notify`.
- The shutdown of the runtime, `forget` and exit of a process in the middle of the
  send path.
- The downcast in `local_handler`: all handlers have one type.
- Of the examples: pacing, histograms, resource figures, statistics and reports;
  the files `paced` and the servers leave behind; `echo` and `bound_echo`, which are
  the exchange of `bound_client` inside one process. The server of the examples is
  one task: its runtime's threads are in `SendPath` and `NodeLife`.
- The crate root: re-exports and prose, whose claims are checked where they bite.
- That inode numbers are unique among open sockets is taken from the code's own
  comment (`SocketId`); so is their reuse.

## What could follow

A composition of `RefRegistry` with the backlog of `SendPath`, in which the overtaking
of `SendPathReacquire` and its cause are one model; send errors that pass
(`ENOBUFS`).
