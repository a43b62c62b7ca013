# WindCloud: a verification project

WindCloud is a small network drive in C: a server with a pool of threads, and an
interactive client. A user logs in by name, moves around in a virtual directory
and runs `pwd`, `ls`, `cd`, `mkdir`, `rm`, `puts` (upload) and `gets` (download).
This directory models the parts of it whose correctness depends on interleavings,
on failures half-way through an operation, on the sizes of buffers, or on two
programs agreeing about what comes next on a byte stream.

Paths such as `src/src/server/worker.c` are relative to the root that holds the
repository in `src/`.

## 1. Inventory

| Component | Code | State | Operations | Hard behaviours |
|---|---|---|---|---|
| server main, lifecycle | `server/main.c` | `g_stop`, `g_listen_fd`, `g_pool` | init, accept loop, SIGINT handler, shutdown | a signal between any two instructions and on any thread; init that fails half-way; the order of shutdown; a descriptor number that comes back as another object |
| listening socket | `server/socket_init.c` | none | socket, bind, listen | failure at start-up |
| thread pool | `server/thread_pool.c` | mutex, condition variable, queue, `exit_flag`, thread ids | `thread_pool_init`, `_add_task`, `_destroy` | signal and broadcast against waiting workers; join; partial creation |
| task queue | `server/queue.c` | linked list `head`, `tail`, `size` | `queue_push`, `queue_pop` | failing allocation; list of one; addresses that come back |
| worker | `server/worker.c` | its `client_fd` | `thread_worker` | spurious and stolen wakeups; exit with tasks queued |
| request handling | `server/handle.c` | `session_t` | dispatch, `handle_login` ... `handle_gets` | check-then-act on files other sessions change; replies out of step; a listing longer than its buffer |
| server file transfer | `server/file_transfer.c` | descriptor, size, bytes so far | `server_recv_file`, `server_send_file` | short reads, end of file, failures with content under way |
| session paths | `server/session.c` | `current_path`, `user_root` | login, cd, path building | fixed buffers, truncation, isolation of users |
| client loop | `client/client.c`, `command.c`, `main.c` | where it is in a command | login, command loop | which reply belongs to which command; long and unfinished lines |
| client file transfer | `client/file_transfer.c` | descriptor, size, bytes so far | `client_send_file`, `client_recv_file` | as on the server |
| framing | `common/protocol.c` | none | send/recv of strings and sizes | short reads and writes, long strings, negative lengths |
| string and path helpers | `common/utils.c` | none | trim, split, name check, `ensure_dir` | boundaries of buffers |
| configuration | `common/config.c` | `g_config`, `g_users` | load both files, look up a user | widths, blanks, comments, missing last newline |
| log | `common/log.c` | `g_log_fp`, `g_log_level` | init, write, close | unlocked use by all workers; a process that is killed |
| `reference_code/` | | | | earlier exercises, not built |

How they interact: the main thread and the workers share the pool (mutex,
condition variable, queue, flag). A worker that pops a descriptor owns it and runs
`handle_request` on it until the client leaves. Worker and client share nothing
but two byte streams. Sessions of the same user share the files of one directory;
no lock guards them. The signal handler shares `g_stop` and `g_listen_fd` with
the main thread. All threads share the descriptor table and the log's two streams.

What makes each part correct:

* pool, queue, worker: the mutex protects what it should; a queued connection is
  never forgotten while a worker is idle; every accepted descriptor is closed
  exactly once; SIGINT ends the server, after everything queued was served;
* lifecycle: a number a thread holds still stands for what it was, none is lost;
* handling and transfer, with the client: both ends always agree on what comes
  next on the stream, neither waits for bytes the other will not send, they never
  both send at once, and a transfer reported as successful moved exactly the file;
* paths: a session never names anything outside its user's directory, nor, while
  its paths fit, another entry than the one asked for;
* listing: what was there throughout is listed, and only the last line may be cut;
* framing: the sequence of strings and sizes received is the sequence sent,
  however the bytes are cut up, and no buffer is overrun whatever a length says;
* configuration and typed lines: settings, users and commands are what the lines
  say;
* log: what was reported as logged outlives the process.

`PROJECT.json` lists the hazards behind these, line by line.

## 2. Modules

| Module | What it is |
|---|---|
| `ConnService` | abstract: what the server promises about connections, with no threads, mutex or flags |
| `ThreadPool` | main, pool, queue and workers, one action per step another thread can observe |
| `Fifo` | abstract: a queue of descriptors |
| `TaskQueue` | the linked list of `queue.c` in memory, node by node |
| `PoolQueue` | composition: the threads of `ThreadPool` on the list of `TaskQueue` |
| `PoolQueueProofs` | theorems about `ThreadPool` for any workers and connections, about `TaskQueue` for any memory, and that the composition keeps what both promise |
| `Lifecycle` | descriptor numbers, main, the signal handler on any thread |
| `LifecycleProofs` | ownership of numbers for any workers, clients and table |
| `Conversation` | clients, their workers, the streams between them and the files they share |
| `ConversationProofs` | that undisturbed sessions stay in step, what the files hold that uploads write, and that finished transfers are exact, for any sessions, names and files |
| `Channel` | abstract: whole messages, in order, cut to the receiver's buffer |
| `Protocol` | `protocol.c` byte by byte |
| `ProtocolProofs` | framing for any sizes, lengths and cuts |
| `Homes` | abstract: each user has a tree of his own and a session a place in it |
| `SessionPaths` | `session.c` and the paths of `handle.c`, as strings in buffers |
| `SessionPathsProofs` | isolation of users and the refinement of `Homes`, for any strings and buffers |
| `FileSystem` | external: the kernel's lookup of a path |
| `Utils` | `utils.c` as operators on sequences of characters |
| `Listing`, `ListingProofs` | `handle_ls` entry by entry, and theorems for any directory and buffer |
| `Config` | `config.c` line by line |
| `CommandLine` | composition: typed lines, the client's and the server's split of them, on the users of `Config` |
| `CommandLineProofs` | theorems about `Config` and `CommandLine` for any files, lines and buffers |
| `Log`, `LogProofs` | `log.c` as all threads use it, and theorems for any threads |
| `MC...` | model values, symmetry and inputs for TLC |

Each refines or is composed as follows: `ThreadPool` implements `ConnService`;
`TaskQueue` implements `Fifo`; `PoolQueue` is both at once and implements what each
does; `Protocol` implements `Channel`, whose messages are the tokens of
`Conversation`; `SessionPaths` implements `Homes`.

### ThreadPool

`main` and `pc[w]` are program counters: the value names what the thread does next
(`lock`, `check`, `waiting`, `woken`, `pop`, ...). `mutex` is its holder, or `None`.
`queue` is the sequence of descriptors of the linked list. `exitFlag` is
`pool->exit_flag`, `stop` is `g_stop`. `client` and `cur[w]` are the local variables
`client_fd` of the accept loop and of a worker. `accepted` and `closes` observe the
calls of `accept` and `close`: a connection stands for one accepted socket and not
for a number the kernel may use again (`Lifecycle` has the numbers).

A step ends where another thread may see the difference: at each lock, at the wait
(which releases the mutex and sleeps at once, as POSIX requires), at each access to
shared data under the mutex (one step each, so that the mutex is shown to be needed
rather than assumed), at each close. `queue_push` may fail (`QueuePushFails`), the
creation of threads may fail after any number (`CreateFails`), waits may end
spuriously (`SpuriousWakeup`), and SIGINT may arrive at any point (`Sigint`).
`signal` wakes any one of the waiters, `broadcast` all. A session is one program
counter value here; `Conversation` looks inside.

Actions and operators that a comment calls faulty, here and in the other modules,
are not used by `Next`. Each is a definition with a plausible mistake; `mutants` in
`PROJECT.json` says which property catches it.

### TaskQueue and PoolQueue

`head`, `tail` and `size` are the fields of `queue_t`, `cell` is memory, `live` the
addresses that are allocated (`calloc` hands out any other one, `free` gives it
back), `got` what the last successful `queue_pop` stored. `order` is a history
variable, the nodes as they were pushed: `ListIsWhole` says that the pointers agree
with it, and the refinement of `Fifo` reads the descriptors in its order.

In `PoolQueue` every step of `ThreadPool` that calls `queue_push` or `queue_pop`
does to the list what those do (`ListStep`), and every other leaves it alone.
`ListIsTheQueue` says that the abstract `queue` was the right abstraction.

### Lifecycle

`table` is the kernel's descriptor table, from which the lowest free number is
handed out. `main`, `worker[w]` and `queue` hold numbers, each with the object it
was opened for, as history; `listenFd` is `g_listen_fd`. The handler is a program of
its own, instruction by instruction (`handler[t]`), and runs on whatever thread `t`
the kernel picks, on top of what that thread does. It may come between the main
thread's test of `g_stop` and its read of `g_listen_fd`, or between that and
`accept`. A client in the backlog is connected but not accepted; `accept` fails
when no number is free and is tried again.

### Conversation

`client[s]` is the client process of session `s`: `pc` is where it stands in
`client_login`, `client_run_loop` or a transfer, `cmd` the command it is in, `file`
the local file, `moved` and `want` the loop variables of a transfer, `outcome` what
the user was last told about one. `worker[s]` is the worker's side: `pc` in
`handle_request`, a handler or a transfer; `login`; the descriptor `fd`, `off`,
`size` of a transfer. `up[s]` and `down[s]` are the two streams, sequences of
tokens: a command, a text reply, a size, a unit of file content. Nothing on the
wire marks a token's kind: each end takes the next bytes for what it expects. A
transfer takes whatever arrives for content (`Received`), a size may come out of any
bytes (`SizesRead`), and where the length of a string should be (`Misfit`) every
outcome is possible: the end hangs up (negative length), swallows what follows
(large length), or reads on (small one).
`entry` maps names to inodes, `Dir` or 0; `data` holds the content of inodes, so an
unlinked file stays readable for those who have it open.

Every system call that another session can observe is a step: `stat`, `open`,
`fstat`, each `recv`, `write`, `read`, `send`, `unlink`. `recv` returns any part of
what has arrived (`Received`). Clients may vanish at any time (`GoAway`), and a
local file may be cut or extended while it is sent (`LocalFileChanges`).

`worker[s].disturbed` and `worker[s].shared` are history variables; they guard no
action. `disturbed` is set by exactly five steps: a download that sends more than it
announced, a download that ends before it has sent what it announced, an upload
that gives up with content still to come, and a client that sends more, or ends
with less, than it announced. `shared` says that another upload has had the same
file open.

### Protocol

One direction of a connection. `sender` and `receiver` are the functions
`protocol_send_*` and `protocol_recv_*` with their locals: `total` of
`protocol_send_n`, the bytes read so far (`part`), the length that was read (`len`),
what went to the caller's buffer (`kept`) and what is still to be swallowed
(`remain`). A byte on `wire` is `<<m, i>>`, byte `i` of message `m`. The receiver
never looks at that, except that a length is what was sent if its bytes are those
of one length, and anything in `Misread` otherwise. `sent[m].at`, a history, is the
offset at which message `m` starts. `astray` marks a stream that starts with bytes
an upload left behind, which is where a session that was disturbed stands.

### SessionPaths, Homes, Listing

`session[s]` is `session_t`. Paths are sequences of characters because
`snprintf` cuts them at `MAX_PATH_SIZE` and nobody looks at its result; `Fit` is that
cut, and `Resolve` the kernel's lookup of what remains. `kind` is the disk.
A command is one step here, from the lookup to its effect: what others may do
between is `Conversation`'s subject. `Homes` has places and trees, no strings, and
`HomesSpec` says that every command whose path fits its buffer (`PathFits`) is a step
of it, also when commands with cut paths came before.

`Listing` has `handle_ls` alone: `result` is the buffer as the sequence of lines in
it, each with the number of its bytes that found room, `offered` what `readdir` may
still return while others create and remove entries. POSIX leaves open whether an
entry made or removed after `opendir` is returned; so does the model.

### Utils, Config, CommandLine

`Utils` translates `utils.c` and the `fgets`, `snprintf` and `sscanf` calls around it
on sequences of characters. `Config` reads both files through `fgets` of
`MAX_LINE_SIZE`, a last line with or without newline; `settings` is `g_config`,
`users` the rows of `g_users`. `CommandLine` runs `client_login` and
`client_run_loop` on typed lines, and `split_command` once at the client and once,
on the line as sent, at the server.

### Log

`thread[t]` is where a thread is in `log_write` and its latest message; a message
is three pieces (prefix, text, newline), each written by a stdio call of its own,
to the terminal and then to the file. `buffer` is stdio's, `written` the kernel's. Any
call may flush on its own; `fflush` empties the buffer, other threads' pieces too.

## 3. Runs

| Run | Bounds | What it shows |
|---|---|---|
| `pool_safety` | 3 workers, 4 connections, 3 nodes of memory, symmetric (62 000 states) | all safety properties of the pool on its list, in every interleaving; `ConnService` |
| `pool_live` | 2 workers, 3 connections | `ShutdownCompletes` and `EveryConnectionCloses` if sessions end; `QueuedOnlyWhileAllBusy` even if not |
| `pool_empty` | no worker, 4 connections | a pool of no threads closes what it never served, at shutdown |
| `lifecycle` | 2 workers, 3 clients, 3 numbers, 1 signal (16 000) | numbers are held and not lost; the signal ends the server; the backlog is accepted |
| `conversation_one` | 1 session, a valid and an invalid name, files of 0 and 3 units, pieces of 2, failing disk, changing local files, one token unread (490 000) | in step, exact transfers, every command ends, the worker of a vanished client comes back |
| `conversation_two` | 2 sessions on one name, files of 1 and 3 units, pieces of 2, none unread (1.4 million) | in step and half-duplex under interference; uploads hold what they received |
| `upload_to_directory` | 1 session, expects a violation | the finding below |
| `protocol` | lengths 0, 2, 3, 5 around a buffer of 3, pieces of 2, 3 messages, the second a size, streams in step and astray (300 000) | in step, no overrun, `Channel`, every message arrives |
| `paths` | 2 users, 2 sessions, paths of 9 bytes, depth 2, 5 objects (28 000) | isolation, standing somewhere, `Homes` |
| `listing` | 3 names of 1, 2, 3 bytes, a buffer of 7 | listings are true and stay in the buffer |
| `command_line` | lines of 11 bytes, keys of 5, names of 4, 2 users; up to 3 lines of configuration, 4 of users, 4 typed (290 000) | settings, users and commands are what the lines say |
| `log` | 2 workers and main, 2 levels, 2 messages each (100 000) | what was logged is written; nothing is written after the close |

Why the bounds are enough for the interesting cases. Pool: three workers allow one
that sleeps, one that steals a task and one that exits, at once; four connections
keep the queue longer than the workers can drain in one step, and three nodes are
fewer than the connections, so that allocation fails and addresses come back.
Lifecycle: three numbers are fewer than listener, connections and files together
need, so that every number is used for several objects and `accept` runs out.
Conversation: a file of three units in pieces of two needs a full and a partial
piece, and may grow or shrink across that boundary; one name is where sessions
collide. `Backlog` bounds how many tokens may lie unread in a stream when the
client sends its next command. `InStepUnlessDisturbed` says that there are none in
a session that was not disturbed, so the bound removes only later behaviours of
sessions that are out of step; `conversation_one` allows one token, so that it
runs through misread replies and commands as well. Protocol: lengths below, at
and above the buffer, with a rest of one piece and of more than one; a head and a
body each longer than one byte are cut everywhere. Paths: nine bytes hold two
levels below a home and cut a name in the second; one of the names is `..` once
it is cut. Listing: the buffer fills inside each of the names and at each newline.
Command lines: the widths are those of the code scaled down with their order kept
(name ≤ argument < line), and lines exist on both sides of each.

Deadlock is checked except in `paths`, `command_line` and `log`, where everybody may
have done all that the bounds allow. Elsewhere a system can stop only at its
`Terminated`, which stutters.

### Finding

`upload_to_directory`: the design document says that for `puts` the server checks
the target and answers whether the upload is allowed
(`src/docs/superpowers/specs/2026-04-17-phase1-design.md:136`). The worker answers
`OK ready to receive file` after it has looked at the name only, and opens the
target when the client is already sending (`server/file_transfer.c:27`). If the
target is a directory, the client gets `ERROR upload failed`, but its content is
still in the stream, where the next command is expected. That is why the
properties of `Conversation` speak of sessions that were not disturbed.

### Limits of the code the properties are stated around

No document promises otherwise, so these are no findings; each is a condition in a
property, or an input the model leaves out.

* A path that does not fit 512 bytes is cut and names another entry of the same
  user (`server/session.c:112`); hence `PathFits`.
* After a second SIGINT that finds another thread, two handlers can be between
  their test and their close of `g_listen_fd` (`server/main.c:32`), and the second
  closes a number that may be a client's by then; hence one signal in the run and
  in the theorems.
* A listing longer than its buffer ends in a partial name, with nothing to say so
  (`server/handle.c:229`); `ListingIsTrue` claims wholeness of the others only.
* The tail of a line longer than the buffer is read as the next command
  (`client/client.c:152`), an argument longer than its buffer is cut
  (`common/utils.c:170`); hence `LinesFit`.
* The tail of a comment longer than the buffer is a user name
  (`common/config.c:137`); hence `ShortLines`.
* `ensure_dir` reports success for an existing regular file (`common/utils.c:106`);
  data_root is a directory in the model.
* `localtime` returns one shared struct (`common/log.c:106`), so that the time of a
  line may be another's.

## 4. Fairness

`FairSpec` of `ThreadPool`: each thread runs on (weak fairness of its own steps)
and gets a contended mutex in the end (strong fairness of taking it, as a lock that
is free infinitely often). `accept` fails once the stop flag is set, since the
handler has closed the descriptor it waits on; `Lifecycle` shows how. No fairness is
assumed of clients, signals, failures or spurious wakeups. `ClientsLeave`, that
every session comes to an end, is an antecedent of `ShutdownCompletes` and
`EveryConnectionCloses` and not part of the specification: the code does not enforce
it, there is no timeout, and SIGINT does not interrupt a worker that waits for an
idle client. `QueuedOnlyWhileAllBusy` does without.

`FairSpec` of `Lifecycle`: weak fairness of main, of the handler and of workers
that take, close or exit. Transfers and sessions come to an end (strong fairness of
`SessionEnds`, since the handler may interrupt a worker). Clients need not come.

`FairSpec` of `Conversation`: each client and each worker goes on when it can.
Nothing makes a user type a command or leave. Liveness is checked with one
session: with two, that they cannot wait for each other is the safety property
`InStepUnlessDisturbed` (no mutual wait), and sessions never wait for one another.

`FairSpec` of `Protocol`: a thread inside one of the loops goes on, and a blocked
call returns when there is room, a byte, or a lost connection. Nothing makes the
sender start a message or the network fail.

## 5. Proofs

TLC checks the instances above; the theorems hold for every value of the
constants. Each is an inductive invariant, proved for the initial states and, action
by action, for each step; TLC has checked each invariant on the run's instance
before.

| Module | Theorems | Assumptions | Argument |
|---|---|---|---|
| `PoolQueueProofs` | `TypeCorrect` | `WorkersAssumption`, `NamesAssumption` | inductive with `ControlInv`, what each program counter implies for the flag, the queue, the locals |
| | `MutexIsOwned` | | a thread is between lock and unlock exactly when it is the holder |
| | `PopAlwaysFindsTask`, `NobodySleepsThroughExit`, `ExitAfterLastTask` | | together (`WakefulnessHolds`): between its test and its pop a worker holds the mutex, so nobody else changes the queue; the flag is set under the mutex, so a worker either tested before and is among the waiters the broadcast wakes, or sees it |
| | `DescriptorsAreOwned`, `ExitIsClean` | | a descriptor is at the acceptor, in the queue, at one worker, or closed |
| | `WakeupsAreNotLost` | | by counting: if somebody sleeps, the queue (less the connection about to be signalled) is no longer than the set of workers on the way to it; the reason why `pthread_cond_signal` is enough |
| | `ImplementsService` | | refinement under all of the above: pushes, pops and closes are steps of the service, all else stutters |
| | `ListAlwaysWhole`, `ListIsFifo` | `AddressAssumption` | `ListIsWhole` with the types; the refinement because a push changes no descriptor of a node in the list (`FreshNode`) |
| | `ListHoldsQueue`, `PoolOnListServes` | the above and `SharedAssumption` | a step of `PoolQueue` is one of `ThreadPool` and, because main pushes only what it accepted, one of `TaskQueue`; both sets of theorems carry over, and the two queues move together |
| `LifecycleProofs` | `HeldStaysOpen`, `NoNumberIsLost` | `LifecycleAssumption`, `FreeAssumption`, `Signals <= 1` | `LifecycleInv`: every number is in at most one place (`OnePlace`), what is held is open for its holder, and `g_listen_fd` is either the one listening socket or already closed with nobody about to close it again (`ListenFdInv`, `OneListening`) |
| `LogProofs` | `ReturnedIsWritten`, `ClosedIsNotWritten` | `LogAssumption` | what each program counter says about where a thread's pieces are (`PiecesOnTheWay`), and who may be in `log_write` at each stage of the server (`WhoWrites`); a flush moves pieces of all threads forward only |
| `ProtocolProofs` | `CallsStayInStep`, `BytesAreMessages` | `FramingAssumption` | offsets: where the receiver stands follows from its locals, and every byte on the wire is the one that belongs at its offset (`Layout`, `SenderInv`, `ReceiverInv`, `WireInv`); holds for streams that start in step |
| | `NothingIsOverrun` | | `BufferInv`, which needs none of that and holds astray as well |
| `ConversationProofs` | `SessionsStayInStep`, `SessionsAreHalfDuplex` | `BoundsAssumption` | `IInv`: twelve phases of an undisturbed session, each saying where the two programs are and what lies in the streams (`UploadRuns`: what the worker has plus what is under way is what the client has sent); a step of one session moves it to a phase again and leaves the phases of the others alone, since a phase mentions no file |
| | `UploadsHoldWhatArrived` | `BoundsAssumption` | `FInv`, on top of `IInv`: a client sends only its own content (`Own`), and of two uploads with one inode open both are marked (`SharedIsMarked`); opening is the one step that truncates and a worker's write the one that extends, every other step leaves an inode that is held alone |
| | `TransfersAreExact` | `BoundsAssumption` | `XInv`, on top of `FInv`: for each stage of a command, whose content is in the file, in the stream and at the client (`Exact`: `Aims`, `Stored`, `Promised`, `Copied`, `Finished`); a worker whose client is not logged in changes no file (`StrangersAreHarmless`), and who was logged in stays so or is closed (`Progress`), so that a session that is alone was alone all the time |
| `ListingProofs` | `BufferIsNeverOverrun`, `ListingsAreTrue` | `ListingAssumption` | `ListingInv`: the lines follow each other without a gap, all but the last one whole, the count never passes the last byte of the buffer, and what was there throughout is still to be offered or is in a line |
| `SessionPathsProofs` | `SessionsStayHome`, `SessionsStandSomewhere` | `PathsAssumption` | `PathsInv`, see below |
| | `SessionsRefineHomes` | and `DataRootAssumption` | `PathsInv` with `Deep`: each action is one of `Homes` when its path fits, with a lemma for each |
| `CommandLineProofs` | `SettingsHold`, `LogInsHold` | `ConfigAssumption`, `FilesAssumption` | `FilesInv`: what is not read is the lines after the k-th (`Unread`), and the settings and users are those of the first k (`AsWritten`, `Loaded`), see below |
| | `LoginsHold`, `CommandsHold` | and `CommandLineAssumption` | `ClientInv`: of the lines typed all but the last are dealt with, and of that one nothing or all but its newline is read (`Pending`); the commands run are what the others say, with the line each came from (`Told`) |

`NoLostWakeup` is not inductive without knowing that a worker with the mutex past
the test has a task. `HeldIsOpen` is not without `ListenFdInv`: the handler must not
find in `g_listen_fd` a number that has been handed out again. `InStep` of
`Protocol` is not without the offsets: which byte is next depends on how much of a
cut string was swallowed.

`PathsStayHome` says little that a step preserves: it is about all paths that a
session might name next. `PathsInv` says where each session stands. The virtual
path is split at every `/`, and as far as it fits the buffer with the user's root
in front, each prefix leads to the directory of those names below the user's own
(`Leads`). When the whole does not fit, what `snprintf` leaves of it is a directory
below the user's own all the same (`Stays`): `cd` asked for just that string. Both
survive what others do, because no command removes a directory (`Grown`), and a
lookup depends on directories only. That a cut name may be `..` is the case that
needs an assumption: in the user's own directory it would lead out. The buffer has
room there for more than two characters of a name, so that a name can be cut to
`..` only one level lower or more, and then leads to a directory of the user.

The lookup, the split of a path and `ensure_dir` are recursive functions over strings
of any length. The library's induction takes a predicate as a parameter, which the
provers cannot be given, but a set they can: `UpTo` (a set with 0 that has `i + 1`
with `i`) and `ByAppending` (a set of strings that has each with one more character)
come from the well-foundedness of `<`, and `Recursion` says that a function defined
step by step exists. Every fact about `Resolve` rests on those.

`Config` and `CommandLine` are read off recursive scans: `trim_space`, `trim_newline`,
the spans of `sscanf`, `fgets`, and the concatenation of a file's lines. Each scan is
replaced by the place where it stops (`UpEnds`, `DownEnds`, `IsSpan`, `Words`), and a
file by its first line and the rest (`StreamCons`). `ReadsALine` is the step from
characters to lines: if no line is longer than the buffer, a call of `fgets` takes the
next line or, when the buffer had no room for it, the newline left from the line
before, which says nothing. A line whose newline is read apart is therefore still one
line. `ValueIs` and `SplitIs` do the same for `sscanf`: where the key of a setting, the
first word and the argument of a command begin and end, before and after the blanks
are taken off. `Understood` and `LoginAsks` say what the client and the server make of
one line; that a command cut to its buffer is no command rests on `6 < CmdSize`.

What proving changed in the models:

* `PathsAssumption` allowed a user whose root left room for exactly `/..` and the
  terminator and nothing more. TLC finds `PathsStayHome` violated there: with 7 bytes
  the name `..a` is cut to `..` and leads out of the directory of the user. The
  assumption now asks for one byte more. With the code's buffers of 512 bytes, names
  of at most 63 and the default `data_root` of 12 there is ample room; only a
  configured `data_root` of more than 440 bytes could come close.
* `TransferIsExact` spoke of a run with one session. It now says what it needs of the
  others: that none has been logged in. Two sessions that are logged in can of course
  change each other's files between a transfer and the next look at it. The prover
  needs two facts about them: a worker whose client is not logged in never gets to a
  file, even when it takes other bytes for a command, and a session that is alone now
  was alone all the time.
* The cases of the kernel's lookup in `FileSystem` overlapped for a `..` below a file,
  which TLC resolves by order and the logic does not; a lookup that meets no
  directory now ends before the cases.
* `BufferNeverOverrun` of `Listing` was about a counter alone and now is about where
  the lines are.
* `SettingsAsWritten` took the value of a line to be all that follows the `=`. With
  `ValueSize` bytes for it, blanks before the end count as well: a value is cut first
  and the blanks are taken off what is left. The property says so now, and the run has
  a line that tells the two apart.
* `LogInAsWritten` and `OneLineOneCommand` compared with sequences that were filtered
  and mapped; they now speak of the lines themselves: which of them are among the first
  `MAX_USERS` entries, and from which line each command came. The second
  no longer ends with the loop: it holds after `quit`, too.
* `LoginAsTyped` compared the user with the names as they are written. A name longer
  than `MAX_NAME_SIZE` is kept cut, and the tail of a line longer than the buffer is a
  name as well; neither is in the file of the run. The property now cuts the name and
  asks, for that part only, that the lines of the file fit.
* That no key is empty (`ConfigAssumption`) and that a line holds no line end
  (`FilesAssumption`) were true of every instance and are assumed by name now.

Only model-checked: liveness (`ShutdownCompletes`, `EveryConnectionCloses`,
`QueuedOnlyWhileAllBusy`, `EveryCommandEnds`, `AbandonedSessionEnds`,
`EveryMessageArrives`, `SignalStopsServer`, `BacklogIsAccepted`), which the prover does
not reach. Every safety property of a passing run is a theorem.
`CommandsAreCommands` is violated, as the run shows.

## 6. Not modelled, and limits

* `reference_code/`: not built.
* Streams of `Conversation` are unbounded: a sender never blocks on a full socket
  buffer. That this would not add a deadlock is `HalfDuplexUnlessDisturbed`;
  `Protocol` has a bounded stream.
* Content that happens to spell a framed command is left out (`MisreadCommand`).
* `data_root` with a user's name and five more bytes fits the path buffer, and the
  names of users.conf are valid file names (`PathsAssumption`); the code checks
  neither. `HomesSpec` also takes a `data_root` without `..` in it
  (`DataRootAssumption`): with one, directories that `ensure_dir` makes on the way
  may stand among the users' own.
* `atoi` of a sign, or of a number past `INT_MAX`.
* `ensure_dir` is one step: nothing removes directories, so that the race of two
  calls ends in what either would have made.
* The time of log lines.
* A `\r` in a line of the files or a typed line (`IsText`): `trim_newline` takes it off
  the end of a line.

## 7. Plan

Done: everything planned so far. What would add most next: exact transfers of sessions
that share the server with others who stay away from the file; paths with `ensure_dir`
level by level; liveness of conversations with two sessions, which needs a smaller
model of the files.
