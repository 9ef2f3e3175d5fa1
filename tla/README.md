# A TLA+ verification of parallel_labs

parallel_labs runs several *callables* in parallel, by processes, threads, OpenMP or MPI, until
one of them finds a result its checker accepts; the finder then stops the others through an
*interrupter*. Its example searches for the key of an encrypted string. This directory holds TLA+
modules of that system, TLC configurations that check them on small instances, and proofs that
TLAPS checks for every instance. Paths below are relative to the repository.

## 1. The system

| Component | Source | State | Operations | Modelled |
|---|---|---|---|---|
| Key range splitting | `include/parallel_decryptor.h` | per unit: `i`, `j`, `step`, `range_end` | `prepare_functions` (eager), `prepare_mapped_functions` with `DecryptorSequence::next/has_next` (lazy) | `DecryptorSequence` |
| Callables | `include/Callable.h` | `_result`, `_has_result`, `_finished`, the list or the generator, `_sighandler` | `run` of `MapCallable`, `MultipleCallable`, `Callable`; `add_single_callable`, `set_sig_handler`, destructors | `Callable`; `Lifecycle` |
| Interrupter contract | `include/AbstractSystemInterrupter.h` | — | `check_next_sync_call`, `handle_success` | `AbstractSystemInterrupter` |
| Runner base | `include/AbstractTemplatedParallelRunner.h` | `_proccesses` | `add`, destructor | `Lifecycle` |
| Thread runner | `include/LinuxThreadParallelRunner.h` | per thread: `pid`, `running` | `run`, `run_single`, `kill_except`, `terminate_handler` | `ThreadRunner`, `ThreadCancelRun` |
| Process runner | `include/LinuxProccessParallelRunner.h`, `sources/LinuxProccessParallelRunner.cpp` | the processes and their signals | `forker`, `run`, `kill_except` | `ProcessSignalRun` |
| Shared memory interrupter | `sources/SharedMemorySystemInterrupter.cpp` | one page of 8 bytes, a static counter | `read_msg`, `write_msg`; constructor, destructor | `SharedMemoryRun`; `Lifecycle` |
| Socket interrupter and server | `include/SocketServerSystemInterrupter.h`, `include/tcp_server.h` | a static `created`, the server's pid, one socket per unit; `server::status`, a session per socket | constructor (fork, connect), the two client calls, destructor (close, kill); `handle_accept`, `handle_read`, `handle_write` and their errors | `SocketRun`; `Lifecycle` |
| MPI runner | `include/MPIParallelRunner.h` | per callable a request, `responding`; per rank `counter` | distribution over ranks, point-to-point and broadcast stop | `MpiRun` |
| OpenMP runner | `include/OpenMpParallelRunner.h` | — | a parallel loop that nothing stops | `MpiRun`, one of its backends |
| Encryptor | `sources/encryptor.cpp` | the vectors and loop counters of a call | `encrypt`, `decrypt` of a string | `Encryptor` |
| Twofish | `sources/twofish.cpp` | `session_key`; the words and counters of a call | `make_session_key`, `encrypt`, `decrypt` of a block | `Twofish`, all but the first |
| Factory and platform macros | `include/AbstractProcessFactory.h`, `include/PlatformDefiner.h` | — | `get_runner` | `Lifecycle` (`Offered`) |
| String conversion, `main.cpp` | `include/to_string_helper.h`, `main.cpp` | — | format a result; choose a configuration | only the configuration |

**How they interact.** A runner's `add` gives each callable an interrupter; `run` starts one unit
(thread, process) per callable. Inside its unit a callable's `run` loops: take an argument, ask
`check_next_sync_call`, apply the function, and if the checker accepts the value call
`handle_success`. When the callable's `run` returns, the unit prints the result, if there is one.
The interrupters differ in what they share: a page of memory, the connection to a server process,
or the runner itself, whose `kill_except` sends a signal to the process group or cancels threads.

**What is hard.** The page is read and written without synchronisation. A winner may be one of
several, and look at units that have not started, have ended, or are winners too. The signal goes
to the parent as well, possibly in the middle of its forks. `pthread_cancel` is asynchronous, and
a thread that cannot be unwound ends the whole program, and one that is cut off may leave a lock of
the library taken. The server answers each request twice, and neither direction of a connection keeps
the limits of messages; the port it wants may be another program's, and then the units talk to that one's
server. A thread that cannot be created is not noticed. A callable of a rank has a
receive of its own that outlives it, so an MPI message may end up with another callable, or
the body of a string where a size is expected. Statics outlive the runner they were made for, and
callables are deleted from two places. The loops end in five
different ways (no argument left, told to stop, success, exception, killed). The cipher walks
through its subkeys forwards and backwards by hand, and it shifts words further than C++ allows.
`PROJECT.json` lists each of these hazards with its line and the properties aimed at it.

**What correct means.** Of the split: no key lost, none tested twice but at a boundary. Of each
interrupter: nobody is stopped without cause; a success stops the others; nobody waits for ever.
Of each runner: when `run` returns, the search is complete, and a result that was found is
printed. Of the cipher, on which the checker of the example relies: the key that encrypted a string
gives it back.

## 2. The modules

`DecryptorSequence` has the arguments of a call as `req` and, per unit, the generator's field `j`
and the keys it has yielded. `Take(i)` is `next()` under `has_next()`. Conversions between `int`
and `uint32_t` are those of the code at the width `Modulus` (2^32 in the program, 2^4 in the runs):
`RangeSize` wraps, `ToInt` is the conversion at the call of `div`, `Incremented` is `j++` on an
`int`, and `KeyAt` is the wrapped `i * step + j`. `EagerKeys` is the list the loop of
`prepare_functions` builds.

`Callable` has the three `run` methods. `pc[u]` is the place in the loop:
`loop` → `check` → `call` → (`announce`) → `loop`, and `report` → `exited` once the loop is left;
`left[u]` says why it was left. `FetchNext` takes an argument *before* the check, as the code does.
`Kind[u]` chooses the class: `MapCallable` ("map") leaves its loop after a success,
`MultipleCallable` ("multiple") goes on, and a plain `Callable` ("single") does not ask at all.
A key stands for the argument and for the value computed from it; `expected`, the keys whose
value the checker accepts, and `endless`, the units whose generator starts over for ever, are
chosen initially and never change. `Faulty` keys make the function throw. The assumption that a
plain `Callable` is never given a faulty key is a restriction: it does not catch, and the program
would be terminated. A module that extends `Callable` supplies the interrupter: it says when
`Checked(u, goOn)` and `SuccessHandled(u)` happen.

`AbstractSystemInterrupter` is the abstract specification of an interrupter: a boolean `finished`
and a phase for each unit. A unit starts to work only while not `finished`, stops only when
`finished`, and when `handle_success` returns `finished` is true.

`ThreadRunner` extends `Callable` with `LinuxThreadParallelRunner::run`: `Refuse` (an empty
runner or too many units), `Spawn` in order, `JoinNext` in order. `pthread_create` may fail, and its code is
not looked at: the unit stays unborn, and `JoinNext` has an id that is nobody's, so it is passed over or
`main` is "broken". `MoreToCreate` is the guard of the loop. Three modules extend it, and
`ProcessSignalRun` extends `Callable`:

* `SharedMemoryRun` — the configuration `main.cpp` selects. `shm` is the set of offsets that hold
  their byte of the message. `ScanByte` is one step of `strlen`; `CheckNextSyncCall` is its end and
  the comparison; `HandleSuccess` stores any group of the bytes not stored yet, so that a copy of
  one word and a copy by bytes are both covered, and returns with the last one.
* `ThreadCancelRun` — `kill_except` is three steps, because other threads run in between:
  `LookAtVictim` (the test of the flag), `Cancel` (the call, with the outcomes for a victim that
  has ended or has been joined), `HandleSuccess` (the return). `Cancelled(u)` is the victim's end:
  unwound, with or without a lock of malloc or stdio left taken (`lockLost`, possible in the places
  `Locking`), or `terminate_handler` and its `exit(0)`, or a program broken by the interruption, or a wait
  for a lock that is lost already. Once a lock is lost, any thread in those places may wait for it for ever
  (`Blocks`), and so may the one that creates threads (`MainBlocks`).
* `SocketRun` — the whole life of the server: `ForkServer` in the first constructor, `Listen`, either
  of which may fail, a `Connect` per callable to whoever listens on the port (`SomebodyListens`), `Close` for
  each destructor, the last callable first, and `KillServer` in the one that knows the pid. `c2s` and `s2c` are the two directions of a connection. One
  read takes any number of messages that have arrived. The server is one thread: completion
  handlers run one at a time from the queue `ready`, `CompleteRead` fills `data_` of a session,
  `HandleRead` looks at its beginning and decides the answers, `WriteAnswer` writes them,
  `HandleWrite` starts another read — once per answer, hence twice per request. When a client has
  closed, `ReadFails` and `WriteAnswer` make "error" completions; the first deletes the session
  (`HandleError`), the others use what has been deleted (`UseDeleted`: undefined, so the server goes
  on or breaks). Another program's server may take the port (`ForeignStarts`), which then speaks the same
  protocol from the same `status`, `reads` and queues; a unit of that program may send it `set`
  (`ForeignSucceeds`, remembered in `told`), and it may go (`ForeignEnds`), which cuts the connections to it
  (`lost`): what is sent on them goes nowhere, and a `read` of them fails, unnoticed.
* `ProcessSignalRun` (extends `Callable`) — `forker` and `wait` in the parent, `Ignore` and `KillGroup`, the two
  halves of `kill_except`, in a child, and `Deliver`, the default action of a pending SIGINT, in any
  process. Fork may fail, and is not completed by a process with a pending signal.

`MpiRun` (extends `Callable`) has three backends: MPI with either interrupter, and OpenMP. Rank `r` runs
the callables `r`, `r + size`, … one after the other (`Begin`, `End`). `Irecv`, `TestSize`, `Test` and
`TestThrows` are the ways `check_next_sync_call` can go; `HandleSuccessPointToPoint` sends "stop" to every
rank, `BroadcastSend` and `BroadcastReceive` are the two sides of the collective call. A string is two
messages, size and body, and `Match` gives a message to the receive posted first among those that accept
it, even that of a callable that has ended. MPI and Boost.MPI are external; the
module's head says what is taken from them. The code gives `irecv` the address of a local string; the
model has the address the same in each call, as we have seen it with g++ at `-O0` to `-O3`.

`Lifecycle` is the program around `run`: `GetRunner`, `Add`, `AddSingleCallable`, `Run` and `Destroy`, in any
order, for several runners. `handler[c]` is the `shared_ptr` of a callable, `Held` the interrupters some
callable still holds; one that nobody holds is destroyed in the same step. `Statics` has the counter and
the page of the shared memory interrupter (`PageStatics`), and `created` and the server of the socket interrupter.
`ServerStatics` forks the server with the first of those interrupters, which has the port unless another
program has (`ForeignServer`); `failed` is that it has not. `AddHangs` is the constructor that connects for ever,
the first one if the server it forked cannot listen (`CannotListen`), or a later one when the server is gone
(`NeedsServer`). `ServerBreaks` is what `UseDeleted` of `SocketRun` may do to the runners that are left.
`Offered` are the pairs of names `get_runner`
knows.

`Twofish` has the operators of the cipher. A byte or a word is the set of the positions of its one
bits; rotations, sums, `Bn` and `g` are those of the code, and one cycle is the body of its loops,
line by line. The tables and subkeys that `make_session_key` computes are the constant
`SessionKey`. `Encryptor` extends it with the two functions of `encryptor.cpp`, run one after the
other: `Pad`, then for each block `EncryptBlock`, eight times `DoEncryptCycle` and `StoreEncrypted`;
the same for `decrypt`, and the `Cut` at the first zero byte. `key` and `trial` are the keys of the two.
`shift` is what the build makes of the undefined shifts in `Bn`: g++ without optimisation (the build
type is not set in `CMakeLists.txt`) leaves them to the processor, which wraps the count around, and
g++ with `-O1` or more takes the result for 0. We have compiled both: only the first passes the
program's own `assurance_test()`.

The `MC…` modules give the constants their values for TLC. Operators named for what they do wrong
(`StepRoundedDown`, `NoReadAgain`, …) stand before the definition they would replace: with the
replacement, TLC finds the property they are listed with in `PROJECT.json` violated. They are not
used otherwise.

## 3. What TLC checks

| Run | Shows |
|---|---|
| `decryptor` | For every `range_begin`, `range_end` (4 bits) and 1–3 units, and every order of `next()` calls: `NoKeyMissed`, `SharedOnlyAtBoundary`, `EagerAgrees`. |
| `shm` | `NoFalseStop`, `SearchComplete`; the refinement `KeepsContract`; `StopSpreads` also with an endless generator. |
| `signal` | `NobodyEscapes`, `ResultSurvives`, `PrintedAccepted`, `ReturnsOnlyEmptyHanded`, `StopSpreads`, with forks that fail. |
| `cipher` | `RoundTrip`, `BlocksInside`, for strings of 0 to 17 bytes, the right key and a wrong one, both builds. |
| `cipher_rotation` | *Violated:* `RotatedInput`. In an optimised build, three of the four bytes `g` takes of the rotated word are 0. |
| `cancel` | `NeverCancelsUnborn`, `SearchComplete` (a sole winner prints), `Terminates`. |
| `cancel_lost` | *Violated:* `ResultPrinted`. `exit(0)` in a victim comes before the winner's output. |
| `socket` | `NoFalseStop`, `AnswerUnderWay`, `NeverDeaf`, `ServerHoldsOut`, `SearchComplete`, `Terminates`, from the fork of the server to its end, with another program's server on the port or not. |
| `socket_lost` | *Violated:* `AnnouncementArrives`. A `set` read together with the `get` before it is dropped. |
| `mpi` | `NoFalseStop`, `SearchComplete`, `Terminates`, and `StopSpreads` where there is a rank for each callable. |
| `mpi_broadcast` | *Violated:* `ResultPrinted`. The finder waits in a broadcast that rank 0 does not begin. |
| `lifecycle` | `CounterExact`, `HandlersReady`, `FreedOnce`, `HangsForCause`, `FreshStart`, for two runners in a program. |

The violated properties each quote a statement of the repository; the findings in `PROJECT.json`
give both sides. What they leave true is worth as much: in the socket run an announcement may get
lost, and units may read answers out of step, but nobody is stopped without a result, which can be that of
another program only if that program has the port, nobody waits for
ever and no key is skipped; in the cancel run a result may be lost when several threads win or a
victim cannot be unwound, and there may be no end when a lock is lost, but a sole winner of a program that
survives prints, and nobody waits for another reason; in the mpi run
only the broadcast of a rank other than 0 blocks.

Some behaviours the properties step around on purpose, because the code has them: a plain
`Callable` does not ask before it works (`Asking` in the refinement, `NoSingleAssumption` in `MpiRun`);
a thread that has not set `running` yet is passed over by `kill_except` and works to its end; a range
that does not start at 0 is not covered to its end (`Narrow`); with more callables than ranks a "stop"
is received once per message, so later callables of a rank may go on (`StopSpreads` of `MpiRun` asks for
`count <= size`); the example of `README.md`, lines 46 to 55, adds an object on the stack, and twice
(`FreedOnce` is about programs with `GivenOnce`); the keys of
a thread that could not be created are not tried, and joining it may break `run` (`AllTried` and
`Terminates` except it); a unit of another program on the port may stop this one, with nothing tried
(`told` in `NoFalseStop` and `SearchComplete`); `add` with sockets hangs if the server cannot listen, and in a second runner
when the first is gone (`HangsForCause` says that it does only in these two cases, and `Terminates` of `SocketRun`
excepts a port on which nobody listens); a victim cut off with a lock taken may leave a run without end
(`Terminates` of `ThreadCancelRun` excepts `lockLost`). TLC finds these properties violated without `told`, and without `lockLost`.

**Bounds.** Three units (two with the server) are enough for a winner, a victim and a bystander, or two
winners and a victim. Each has two arguments, so that there is a state before, between and after
calls; neighbours share a key, as the boundary keys of the split, so one `expected` set makes two
winners; `ExpectedSets` is every set of keys. With the server one unit has one argument, the other two, of which
the last is shared, and the sets are: none, the first key of the second unit, the shared key.
The server of another program comes at most once and goes at most once. One key throws. One unit is a `MultipleCallable`.
`Limit` is 3 instead of 1000 (2 with the server); the number of added callables is chosen from 0 to `N`, so both
refusals' boundary is met at 0. The message has 2 bytes instead of 8: torn means one of two, and
the proofs are for any length. `Modulus` is 16, with ranges on both sides of the largest `int`.
A byte has 2 bits in the cipher's run, and a block 16 bytes in 4 words, as in the code; the strings
end just before, at and after the end of a block, and some have a zero byte in a place that matters.
`MpiRun` has three callables on one to three ranks: several callables on a rank, one, and ranks without
any; where a rank has several, a message can meet the receive of a callable that has ended, and the body of
a string the receive for a size. `Lifecycle` has two runners, so that one precedes, overlaps or follows the other, two simple
callables and a list, symmetric in the first two. Its `MaxRuns` (2 calls of `run()` for a runner) is the only
bound in a guard besides `Len(units[r]) < Cardinality(Object)`, which no program with `GivenOnce` meets; the
other state spaces are finite as they stand. Its definitions, and those of `DecryptorSequence`, have names of
their own (`LifeSpec`, `SplitSpec`), because one module holds the proofs about both.

**Fairness.** Weak fairness of each thread's and process's steps: the operating system schedules
what can run. In `ProcessSignalRun` also of each `Deliver`, since the kernel delivers a pending
signal before it returns to the process, and in `ThreadCancelRun` of each `Cancelled`, since
asynchronous cancellation waits for nothing. In `SocketRun` the server is fair as a whole, being
one thread, and so are `Listen` and the thread that makes, joins and destroys; there is no fairness of the `Foreign`
actions, since nobody promises what another program does. In `MpiRun` each rank's `Begin`, each
callable's step and each `Match`: MPI promises progress of a message that has a receive.
`DecryptorSequence`, `Encryptor` and `Lifecycle` have none. There is no strong fairness anywhere.

**Deadlock** is not checked: a program that has ended has no next step.

## 4. What is proved

Eight modules hold proofs. `CallableProofs` and `ThreadRunnerProofs` are lemmas the others share. Each of
`SharedMemoryRunProofs`, `ProcessSignalRunProofs`, `ThreadCancelRunProofs`, `SocketRunProofs` and `MpiRunProofs` is
about the module it is named for, and `SequentialProofs` about the three components that run in one thread:
`DecryptorSequence`, `Encryptor` and `Lifecycle`. Every invariant that a run checks is a theorem, for every value
of the constants, and so are the refinement `KeepsContract` and the action property `FreshStart`. No property is
inductive as it stands. An invariant that is (`Inv`; `SplitInv`, `LifeInv` and `OnceInv` in `SequentialProofs`)
was checked by TLC before it was proved; its parts are described here.

**What is shared.** `UnitInv(u)` of `CallableProofs` ties the place in `run` to the result and to the
arguments tried so far: before a check all but the last one taken have been tried, at the top of the loop
all of them, so that running out of arguments means all have been tried; a result is an accepted key, and
it is printed before the unit has exited. Every step of `run` is a `UnitAction`, whatever the interrupter,
and keeps it. `RunInv` of `ThreadRunnerProofs` ties the runner's place to the units': threads are created
and joined in order, so when `run` returns every unit has come to its end or could not be created. Its lemmas take the places a
thread may end in as they are, so that the three modules over `ThreadRunner` use them as they stand.

**Shared page.** `TypeCorrect`, `NoFalseStopHolds`, `SearchCompletes`, for any number of units and any length
of the message; and `Implements`: `Spec => KeepsContract`, the refinement, under two named assumptions:
`Asking` (no unit is a plain `Callable`, for which it is false) and `WholeMessageCopied` (`sizeof(c_str)` is not
less than the length of the message, as on a machine with 8-byte pointers). `ShmInv` is about the
page: a byte is there only if some unit has a result, the bytes a `strlen` has gone over are there, and
the bytes a `write_msg` has stored are there. Since nothing ever erases a byte, a whole message
that has been scanned is a whole message now, and that is why the race is harmless: it is what
`CheckContract` and `HandleSuccessContract` prove. `SearchComplete` follows from `UnitInv` and
`RunInv` with `NoFalseStop`: a unit that was stopped was stopped because another had a result,
and a result of an exited unit has been printed. Every step maps to one abstract action or a
stutter (`NextContract`).

**Processes.** `TypeCorrect`, `NobodyEscapesHolds`, `ResultSurvivesHolds`, `PrintedAcceptedHolds`,
`ReturnsOnlyEmptyHandedHolds`. `ForkInv` counts: those behind `toFork` are born, and as long as `run` waits, it
has at least as many waits left as children it has not reaped, unless it has reaped all that were born. `AnnounceInv` is the order of the two halves of `kill_except`: who has sent the signal had a result
and ignored the signal before, so he is never killed, and that is why some result survives. `VictimInv`:
nobody dies of a signal that nobody has sent. `DoneInv`: nothing happens after `run` has returned.

**Cancellation.** `TypeCorrect`, `NeverCancelsUnbornHolds`, `SearchCompletes`. `CancelInv`: only a thread with a
result aims, never at itself, and at a thread that has set its flag, hence has been created (not every thread is, as `pthread_create` may fail); and whoever is
being cancelled or has been is not the only one with a result. So a sole winner is never cancelled, and
without a winner nobody is.

**Sockets.** `TypeCorrect`, `NoFalseStopHolds`, `AnswerUnderWayHolds`, `NeverDeafHolds`, `ServerHoldsOutHolds`,
`SearchCompletes`. The invariant has a part about the runner (`LifeInv`: threads run only when all are
connected, sockets close only when all are through; `WaitInv`) and one about the server. There `FlagInv`
follows the word of a success through every place it may be in: before somebody has a result, here or
in the other program (`told`), no `set` is in a connection or in `data_`, `status` is 0, and no "finished" is in an answer; the end of the
other program's server leaves that as it is, since it only takes away. `LinkInv`: the server has
operations only for connections it has accepted, and errors only for closed ones, which is why a session that
is deleted twice belongs to a client that does not ask any more. What the queues hold is stated by their
ranges, and three lemmas (`RangeTail`, `RangeRest`, `RangeCopies`) say what taking from them leaves.

**Splitting.** `SplitTypeCorrect`, `EagerAgreesHolds`, `NoKeyMissedHolds`, `SharedOnlyAtBoundaryHolds`, for every even
width of more than 3 and every request. `WorkerInv` counts the rounds of a generator as
`prepare_functions` does, modulo `Modulus`, so it spans the overflow of `j`: the keys yielded are those of the
rounds before this one, all in range, or else no round at all is out of range and the generator
never ends. `EagerAgrees` follows for all requests. For a `Narrow` one, `StepNarrow` says that the step
is the quotient rounded up, `KeyNarrow` that nothing wraps, and `EndNarrow` that the round after the step is
out of range, even for 2^31 - 1 keys and one unit, where `j` has become negative. The two properties are then
arithmetic: `key = i * step + k`.

**Ranks and messages.** `TypeCorrect`, `NoFalseStopHolds`, `SearchCompletes`, for any number of ranks and
callables, with the callables dealt out unevenly or to fewer ranks than there are. `OrderInv` is the walk of a
rank through its callables: those before `counter[r]` have come to their end, those behind it are unborn. The proof
that a rank goes on to the callable `size` further, and leaves none out, is arithmetic about remainders. `PostInv`
ties the receives to the requests: rank `r` has posted one for exactly the requests of its callables that wait, each
once, whether or not the callable has ended, since that is what a message may be matched with. `QuietInv`: before
somebody has a result no message is in the network, and the request of a callable is unused or still waits. A
receive may be completed with what was not meant for it only after that, so `NoFalseStop` holds although the
matching is wrong; an exception out of `test()` is such a completion too. `SearchComplete` follows from `UnitInv` of
each callable, as for the threads.

**The life of runners.** `LifeTypeCorrect`, `CounterExactHolds` and `FreshStartHolds` for any program;
`HandlersReadyHolds`, `FreedOnceHolds`, `HangsForCauseHolds` for one with `GivenOnce`, without which `FreedOnce` is
false. `HolderInv`, part of `LifeInv`, says who may hold an interrupter: only callables of one group, that is the
n-th callable added to a runner and the items of its list, and only while the runner lives. So the interrupter
`add` makes is not held yet, although its name is only the runner and a number, and a step loses exactly the
interrupters whose last holder it takes away: that is `StaticsCount`, from which `CounterExact` follows. `FreshStart`
follows from that: a runner that uses the page alone has added its first callable in this step, so nobody held an
interrupter of the page, the counter was 0, and the page is made anew. `OnceInv` adds that the whole group holds the
interrupter (`GroupInv`: lists are disjoint, and an item joins with what its list has). `DeletesOnce` counts with
it what the destructors delete: a callable is in one place of one runner or in one list, never both.
`FreedInv`: what has been deleted belonged to a runner that is gone. `ServerInv`: once a server has been forked, it runs, or it could
not listen (`failed`), or a runner with socket interrupters is gone, since only then it is killed or can break.

**The cipher.** For bytes of any length, any keys, tables, subkeys and strings, and both kinds of build:
`TypeCorrect`, `BlocksInsideHolds`, `RoundTripHolds`, and `MaskedShiftRotates`: where the shifts wrap around, `g`
started at byte 3 is `g` of the rotated word. The facts about one cycle come first: `CycleUndone` (a
cycle of `decrypt` undoes one of `encrypt`, because each half changes two words by a function of the other two)
and `EndsUndone` (whitening, the swap, the bytes). The invariant keeps a *trail* for each block: the words
before and after each of its eight cycles. While a block is encrypted, such a trail exists for the cycles
done; every encrypted block has a whole one; and while it is decrypted with the same key, the words are those
of its trail, read backwards. So an optimised build is consistent with itself, although it does not compute
Twofish; what it has encrypted, an unoptimised one need not decrypt.

**Assumptions.** Those on the constants are named in the modules that declare them, and TLC evaluates them in
every run: `CallableAssumption`, `SingleAssumption`, `LimitAssumption`, `ShmAssumption`, `SignalAssumption`, `ModulusAssumption`,
`RequestsAssumption`, `TwofishAssumption`, `EncryptorAssumption`, `LifecycleAssumption`, `MpiAssumption` and
`NoSingleAssumption`. Only `Implements` and the three theorems that suppose `GivenOnce` have more.

**Only model-checked.** Liveness (`StopSpreads`, `Terminates`), because fairness and ENABLED are beyond the prover.

## 5. What is not modelled

* The `run` of a `MapCallable` inside a `MultipleCallable` (its `should_call_sighandler` is false, so it does not
  leave its loop, and a later value overwrites `_result`), and a callable that is run twice.
* Processes with the shared page or the socket: they share no more than the threads do. Nor the
  same interrupter in two units, which only a program that adds a callable twice has.
* The construction of the communicator, and `MPI_Finalize` with receives still posted; an OpenMP team that is
  smaller than asked for (units would then run one after the other, which nothing distinguishes).
* Undefined behaviour at the level of a torn `bool`, and the missing `return` of `run_single`: the build
  sets no optimisation level, and there a `bool` is one byte and the function returns. A heap or a stream that a cancelled
  thread leaves torn, beside its lock: there is one outcome, the end of the program.
* A port that is taken and left by several programs in turn, and another program on it that speaks another
  protocol.
* `make_session_key` and `assurance_test`; strings of 2^31 bytes or more, whose length an `int` counts; the
  text that is printed (`to_string_helper.h`); the options and messages of `main.cpp`.

## 6. The plan

In order of importance, what is left:

1. Nested callables in `Callable`: a `MapCallable` in a list, with the value that `_result` has at its end.
2. `make_session_key` in `Twofish`, whose tables are a constant now; RoundTrip does not depend on it, the
   agreement with the reference vectors would.
3. The safety half of `Terminates`, by proof: in no state that the invariants allow is everybody waiting, stated
   with the guards of the actions instead of ENABLED. `MpiRun` and `SocketRun` first.
