# Formal models of libm8r

libm8r is the runtime under the m8rscript family of languages: a cooperative
task scheduler, timers, TCP and a task server, a telnet terminal, a web server,
a file system and the containers they are built from, for an ESP8266 (FreeRTOS)
and for a Mac simulator. This directory holds TLA+ models of it, the TLC
configurations that check them on small instances, and theorems checked by
TLAPS. Paths below are relative to the repository; `C/` stands for
`components/libm8r/`. `PROJECT.json` maps every definition that models code to
the lines it stands for, and lists runs, mutants, findings, hazards and
theorems.

Contents

1. Inventory: the system's parts, their state, operations and hazards
2. The modules and how they correspond to the code
3. The runs: what each asks, its bounds, its fairness
4. What the code does that one would not expect
5. The proofs
6. What is not modelled, and why
7. Plan


## 1. Inventory

### How the parts interact

There is one main thread. `m8rmain` (`C/Application.cpp`) calls
`SystemInterface::runLoop`, which for ever runs `TaskManager::runOneIteration`
and lets each server handle its queued events. Everything a task does happens
inside `runOneIteration`; a task is never preempted. Beside it there are

- the worker thread of `mac/cpptime.h`, which runs every timer callback of the
  Mac simulator (on the ESP: the FreeRTOS timer task);
- one server thread per TCP port (`mac/MacTCP.cpp`, `C/RtosTCP.cpp`), which
  accepts, reads and posts events;
- on the ESP the Wifi driver's task, which runs the event handler of
  `C/RtosWifi.cpp`, and the task that waits for a phone to configure the
  station.

What the threads share: the `_delayComplete` flag of an executable and the
`_data` of a timer (no lock), the queue of CppTime (its mutex), the queue of TCP
events (a mutex on the Mac, none on the ESP), the array of client sockets (no
lock), and the event list of `SystemInterface` (no lock).

    client --TCP--> server thread --events--> TCPServer (main) --run/terminate--> TaskManager
                          |                       |                                   |
                          |                   Terminal --Telnet--> task (Shell)    execute()
                          +----events-----> HTTPServer (main) --> files, REST handlers
    cpptime worker --callback--> Timer: delays, heartbeat, time slice --flag------^
    Wifi task --system events--> Application (main) --starts--> the two servers
    Application, Shell, HTTPServer --> MLittleFS --> littlefs --> flash

### Components

| component | state it keeps | operations | what makes it correct |
|---|---|---|---|
| Task scheduler (`C/TaskManager.*`, `Task.*`, `Executable.*`) | `_list`, `_currentTask`; per task `_state`; per executable `_delayComplete`, `_delayTimer` | `run`, `terminate`, `runOneIteration`, `startDelay` and its callback | no task listed twice; the list is the live tasks; an ended task is not executed again; a Ready task gets its turn; no delay is lost |
| Shared pointers and containers (`C/SharedPtr.h`, `Containers.h`) | a 16-bit count in each object; `_array`, `_size`, `_capacity` of a Vector | copy, move, `reset`; `push_back`, `erase`, `remove`; `Map::find`, `emplace` | what is released is counted; nothing that is used is deleted; slots hold the list; a Map stays in the order its search needs |
| Timers of the Mac (`mac/cpptime.h`, `mac/MacSystemInterface.cpp`, heartbeat in `C/SystemInterface.cpp`) | `events`, `time_events`, `free_ids`; the stored id of each Timer | `add`, `remove`, expiry; `start`, `stop`, `setHeartrate` | no id lost or handed out twice; one-shot fires once; a timer only touches its own event; the heartbeat goes on |
| TCP on the Mac and the task server (`mac/MacTCP.*`, `C/TCP.*`, `TCPServer.*`) | `_clientSockets`, event queue; `_connections` | server loop, `disconnect`, `handleEvents`; the event handler and the finish callback | slots are distinct open connections; data reaches the task of its connection; a task ends for a cause of its own; a hang-up is noticed |
| TCP on the ESP (`C/RtosTCP.*`) | the same, without a lock | the same | an event is handled once, and by the server it is for |
| Telnet and the terminal (`C/Telnet.*`, `StateMachine.h`, `Terminal.*`) | state machine, `_line`, `_position`, two strings to hand over | Connected, ReceivedData; one handler per state | the display shows the line; a line is sent once; keys edit as promised |
| HTTP server (`C/HTTPServer.*`) | request handlers | ReceivedData, responses, Error; parsing a request | a response reaches who asked; a request is answered; its parts are what was sent |
| Application, system interface (`C/Application.*`, `SystemInterface.*`) | event list, the servers, heart rate | mount, upload, start of the servers, REST handlers, `runLoop` | no address lost; what is uploaded is there |
| Wifi (`C/RtosWifi.*`) | number of tries, configuration task | event handler, smart configuration | the station comes back |
| Files (`C/littlefs/MLittleFS.*`, `MFS.*`) | mounted flag, sticky error; per file mode, error, littlefs handle | mount, format, open, read, write, seek, close, directories | a mode does what its table says; an error of one call does not poison the next |
| littlefs, metadata pairs (`C/littlefs/lfs.c`) | two blocks with a log each; the copies open files have | fetch, commit, compact, relocate, the lookups | power may go at any unit: the directory is as before or as after; lookups agree with the log |
| littlefs, the tree | pairs with names, tails and deltas; `gpending`, `gdelta` | create, mkdir, remove, rename, mount, deorphan, demove | the same for operations over several pairs; the list and the tree hold the same pairs |
| littlefs, files | lists of blocks, a cache, the allocator's window | open, read, write, seek, truncate, sync, close | a file is a sequence of bytes; no block is used twice; no space means none |
| JSON (`C/JSON.*` over `Scanner.*`) | the error, the token at hand | `parse` | a text is read as it was meant or refused |
| Shell (`C/Shell.*`) | lines to be executed, the file it lists | `execute`, commands | answers each command once |
| ESP timers (`C/RtosSystemInterface.cpp`), UDP (`mac/MacUDP.*`) | as their Mac counterparts | as above | as above |
| Text and numbers (`MString.*`, `Atom.*`, `Base64.*`, `SystemTime.h`, `Mallocator.*`) | none, or a table | split, trim, encode | equal to their definition |

The behaviours that are hard here are: the timer thread against `startDelay` and
against `start`/`stop`; the server thread against `disconnect` on the main
thread; events that name a slot and not the connection that had it; lists that
two tasks change without a lock; a list erased and rotated by code that also
runs callbacks; reference counts that the containers do not balance; strings
swapped back and forth while a packet is handled; errors that stick; power lost
between two units of a commit or two commits of an operation; a block that fails
while others still refer to it. `PROJECT.json` lists the hazards, each at its
line, with the properties that cover it; a note says where a property excepts
what the code gets wrong. Section 6 names those that no property covers.


## 2. The modules and how they correspond to the code

| module | models | state → code |
|---|---|---|
| `TaskManager` | `TaskManager.cpp`, the parts of `Task`, `Executable` it drives | `list` `_list`; `current` `_currentTask`; `state` `Task::_state`; `delayComplete` `Executable::_delayComplete`; `armed` the running delay timers; `timerId` `Timer::_data` of each; `pc` the place in `runOneIteration` |
| `Scheduler` | nothing: the promise to the callers of `run` | tasks that are live, ended, running |
| `TaskMemory` (extends `TaskManager`) | `SharedPtr.h`, `Vector` of `Containers.h`, as the scheduler uses them | `slots`, `size` the Vector; `heap.count` `Shared::_count`; `handle` the owners' pointers; `program` who uses it: any tasks, or shells |
| `CppTime` | `mac/cpptime.h` | `events`, `due` (`time_events`), `freeIds`, `firing` (the handler being run) |
| `MacTimer` (extends `CppTime`) | `Timer` of `mac/MacSystemInterface.cpp`, the heartbeat of `SystemInterface.cpp` | `data` `_data`; `todo`, `timer`, `local` the statements a thread has left in `start`/`stop` |
| `TCPServer` | `TCPServer.cpp` over `MacTCP.cpp` and `TCP.cpp` | `slot` `_clientSockets`; `events` the queue; `task` `_connections[i].task`; `home` the captured connectionId; `file` the kernel's descriptors |
| `Network` | `RtosWifi.cpp`, the event list of `SystemInterface.h`, the start of the servers, `HTTPServer`'s handler over `RtosTCP.cpp` or `MacTCP.cpp` | `wifi` `RtosWifi`; `list` `_events` of the system interface; `slot`, `events`, `task` of each server; `web` `_webServer`; `main` the place in `runLoop` |
| `LineEditor` | nothing: what `Telnet.h` promises | a line, a cursor, the key that was pressed |
| `Terminal` | `Telnet.cpp`, `StateMachine.h`, `Terminal.cpp` | `machine`, `line`, `position`, `toChannel`, `toClient`; `held` the handler's own strings; `screen` the client's display |
| `FileSystem` | `littlefs/MLittleFS.cpp` over what littlefs keeps | `tree` littlefs's names and data; `mlist` its list of open files; `fsError` `FS::_error`; `file` the `File` objects (`_error`, `_mode`) with their `lfs_file_t`; `full` whether the last call met a full flash |
| `FileTable` | nothing: the table of modes in `MFS.h` | stores, sessions, spoiled files |
| `Uploads` (extends `FileSystem`) | `mountFileSystem` and `uploadFiles` of `Application.cpp`, and a program that uses files | `stage`, `at`, `sent` the place in them; `troubled` a flash that was full meanwhile |
| `DirLog` | the tags of a metadata pair and the ways `lfs.c` reads them | no state |
| `MetadataPair` (extends `DirLog`) | `lfs_dir_fetchmatch`, `lfs_dir_commit`, `lfs_dir_compact`, the end of `lfs_dir_commit` for open files | `flash` the blocks; `ptr` the pair as it is named above; `files` `lfs_file_t::m` and `id`; `commit` the locals of the commit under way |
| `Directory` | nothing: what a pair promises | what a mount would find |
| `LfsTree` | `lfs_mkdir`, `lfs_remove`, `lfs_rename`, `lfs_dir_drop`, `lfs_fs_relocate`, `lfs_fs_demove`, `lfs_fs_deorphan`, `lfs_mount` | `disk` the pairs; `ram` `gpending`, `gdelta`; `todo` the commits left of the operation |
| `Tree` | nothing: what the directories promise together | paths and what is there |
| `LfsFile` | `lfs_file_*`, `lfs_ctz_*`, `lfs_alloc`, `lfs_fs_traverse` | `flash` data and pointers; `entry` the structs on disk; `files` `lfs_file_t`; `free` `lfs_t.free`; `call` the phases left of a call |
| `ByteFile` | nothing: what an open file promises | bytes, position, error |
| `OrderedMap` | `Map` of `Containers.h` | no state |
| `WebRequest` (extends `OrderedMap`) | `parseRequest`, the choice of a handler, the handlers of `Application.cpp`, `String::split`, `trim`, `join` | `request` what the client composes; `served` what became of it; `station` what `setSSID` was told |
| `Json` (extends `OrderedMap`) | `JSON::parse` | `failed` `_error`; `result` what it returned; `written`, `meant` who writes the text |
| `MC...` | constants of the small instances; `MCLibrary` composes `TaskMemory`, `WebRequest`, `Json` | |
| `...Proofs` | theorems | |

**TaskManager.** `Run` and `Terminate` are the calls from outside an iteration.
An iteration is cut where foreign code runs: `Dispatch` (the `find_if`, the
rotation of a Ready task to the back, `_currentTask`), then whatever the
executable does — `StartDelay` has two halves, since the timer thread may run
between clearing the flag and starting the timer — and `Return`, one disjunct
for a value that ends the task and one for the others. `DelayFires` is the timer
thread. `StartTimer`, the second half, is `Timer::start` with the `stop` it
begins with: it removes whatever runs under the id that the Timer keeps, and
takes an id that is free. `TimerIds` says which ids a task's timer may be given:
on the ESP a handle of its own (`OwnTimers`), on the Mac the ids that CppTime
gives to all. `Crash` is the search following a null `_executable`
(`Task::readyToRun`). `RemoveTask` removes the *head* of the list:
`Vector::remove` uses `std::find`, `SharedPtr` has `operator bool` and no
`operator==`, so any two non-null pointers are equal.

**TaskMemory** conjoins to each of those steps what it does to the counts and
the slots: `find_if` takes its tasks by value (a copy and a release each);
`erase` empties a slot with a move assignment, which releases nothing, and moves
n-1 elements down wherever the gap is; `push_back` assigns over the stale copy
behind the end; `reset` forgets the pointer only at the last reference.
`heap.fault` records the first assertion, use of a deleted task or access past
the buffer, after which nothing is modelled. `program` is chosen at the start:
`"any"` is any use of the scheduler; `"shells"` is what a server of shells makes
of it (`Application.cpp`, `Shell::execute`): a task per connection, whose
`execute` waits for the next event, and which the hang-up terminates, two at a
time (`AsShells`).

**CppTime.** `add` and `remove` hold the mutex and are an action each; the
worker releases it while a handler runs, so an expiry is `FireBegin` and
`FireEnd`. Time is abstracted: any queued event may be next.

**MacTimer.** `start` and `stop` run unlocked on either thread, so each
statement that touches `_data` or the queue is a step. `_data == nullptr` and
the id 0 are the same value, as in the code. The heartbeat's callback calls
`start` on the worker. The repeat of a Once timer is an uninitialised duration
(`MacSystemInterface.cpp:93`): `OncePeriods` lets it be either.

**TCPServer.** The server thread: `Select`, `Accept`, `Refuse` (which leaves the
loop), the scan with `Read`, `Post` (under the mutex), and after the end of a
stream `Close` and `Zero` as two steps. The main thread: `HandleEvents`, a
handler per kind of event, `HandledAll`, and for a task that finishes the
captured callback — read and clear the slot, close, post, reset. `accept`
returns the lowest free descriptor, as POSIX requires. Every connection gets a
task: that `createTaskFunction` returns one with an error
(`TCPServer.cpp:55-58`) is not modelled, since none in the repository does.

**Network** is cut where another task may come in. `push_back` reads the size,
writes the element and writes the size back: `AddEventBegins`/`AddEventEnds` for
the system's list (in either order, as a compiler may place the two stores),
`PushBegins`/`PushEnds` for a server's. `PopSize` and `PopData` are the two
halves of `nextEvent`. `StartNetworkServers` constructs a server for each
address, whose task then tries to `Bind`; the old server is never destroyed and
keeps the port. The handler of an event is `PassEvent`, `ErrorEvent` or the
response: `SendHeader`, `SendBody`, `Done`, each of which may fail and go to
`Drop`, which is `disconnect()` — on the Mac it then waits for the mutex that
`handleEvents` holds (`blocked`). On the ESP the range-for walks a buffer that a
`push_back` of the server task may have moved: `Astray`. An event carries
whether its data is a `valid` request: the first half of one is if it holds the
request line, and is answered (`HTTPServer.cpp:65-116`), and the second never
is. An element that was cleared while it was taken leaves the main task where it
goes on with the server's events although the list is not empty (`through`). A
`plan` chosen at the start says which system runs, with how many slots, which
clients, and how often the radio and the phone act.

**Terminal.** One action per handler; `HandOver` is the end of `receive` with
its two swaps, and what `Terminal.cpp`'s loop does with the result. Characters
are the classes the state table distinguishes. `StateTable` is the table of
`Telnet.cpp`. `LineEditor` is what `Telnet.h:36-38` says and nothing of what the
code makes of it: arrows, control-a and control-e move its cursor, a doubled
0xff is a character of the line. `KeyOf` says which key a packet is; a line feed
by itself, a control character and a telnet command are keys that do nothing.

**FileSystem.** One action per call. littlefs is kept to what the code relies
on: a new name is in the tree at once, data and truncation reach it when the
file is closed, the files of a name that is removed keep their data and write it
nowhere, formatting and mounting reset the list. A flash that is full may fail
any call that needs room, the creation of a file by `open` included
(`lfs.c:2361-2368`). `fsError` sticks, as `FS::_error` does: a directory that
could not be made leaves the file system "not mounted". A file that was refused
a call is not closed by littlefs any more (`MLittleFS.cpp:308`); its handle
stays in `mlist`, so that `Fresh` keeps a new `File` from taking it.

**Uploads** conjoins its own steps to those calls: `MountFileSystem`, then for
each source `EnsureDirectory`, `OpenTarget`, `WriteTarget` for each byte,
`CloseTarget`; `MissSource` is `fclose` of the null pointer
(`Application.cpp:280`). `RunProgram` is any use of the files afterwards,
`StartAgain` may happen between any two steps and leaves the tree.

**DirLog, MetadataPair.** A block is its revision and the tags that were
programmed. `DirLog` defines what a log means by applying tag after tag
(`Replay`) and, next to that, the readings of `lfs.c`: `GetTag` scans from the
end and shifts the id it looks for, `FindName` and `Count` go forwards while the
block is fetched, `Compacted` is what is carried to the other block. A commit is
a sequence of steps: `AppendUnit` for each program unit, `NoRoom`, `Compact`,
`Erase`, `Write` for each unit of the other block, `Relocate` when a block fails
or is worn, `Relink` for the block above, `Frozen` for the superblock, which can
not move. `Done` is the end of `lfs_dir_commit`, with what it does to every open
file. `BlockFails` and `PowerLoss` may happen between any two of these.
Revisions wrap around at `Revs`.

**LfsTree.** A pair has its entries by name, its tail and its delta of the
global state; an operation is a list of commits that `Step` takes one by one,
and `PowerLoss` may happen between any two. `DirCommit` is a commit with what it
drags along: a split when the pair has too many ids, a relocation, which adds
the orphan count and the commits that rename the pair above and in the list.
`Demove` and `Deorphan` are what `lfs_fs_forceconsistency` does before the next
operation. A pointer carries how often its pair was moved, and two pointers
share a block when these numbers differ by one, as after a relocation.

**LfsFile.** A call is a list of phases — fill a block, copy the rest of the old
one, flush, store the entry, leave — and a phase is one step for each unit.
`Alloc` is the search in the window and its refill by `Traverse` from the
entries and the open files; `Marks` is what the refill sets in the window by
arithmetic on 32 bits, for a file that left its entry and has not been flushed
also a block that nobody holds (16 of section 4); `Relocation`, `Outline`,
`Extension` are the functions of those names. `CtzIndex` is `lfs_ctz_index` with
the room that the pointers take; elsewhere a block has the same number of units
wherever it stands in its file. `ByteFile` is what `lfs.h` says of a call that
succeeds: a sync or a close has stored the file, or returns an error.

**WebRequest, Json, OrderedMap.** A text is a sequence of words and separators.
The client composes a request as parts and the text is these joined; `Receive`
is the whole way of the text through the server. JSON's parser is a recursive
operator over tokens which carries the place and the sticky error; a writer
keeps the grammar and knows what it means. `Search` is the binary search, a
recursive function of the range, with its negative answer for an absent key,
`Emplace` the insertion that decodes it.

Composition: `TaskMemory` extends `TaskManager`, `MacTimer` extends `CppTime`,
`Uploads` extends `FileSystem`, `MetadataPair` extends `DirLog`. Through
refinement mappings at the end of those modules `TaskManager` implements
`Scheduler`, `Terminal` implements `LineEditor`, `FileSystem` implements
`FileTable`, `MetadataPair` implements `Directory`, `LfsTree` implements `Tree`
and `LfsFile` implements `ByteFile`.

The three models of littlefs split it by grain and each takes the others'
promise: `LfsTree` makes a commit one step, which `MetadataPair` shows to be
right for one pair; `LfsFile` makes an entry one step; `FileSystem` makes a call
one step, which is `Tree`'s and `ByteFile`'s promise for a program that stops
between two calls. The layers are related by this argument, not by a checked
refinement: their states name different things.


## 3. The runs

| run | question | bounds | states |
|---|---|---|---|
| `MCTaskManager` | any program of three tasks, each with its own timer: no duplicates, no lost delay, what a wrong removal costs, whose turn it is; and does the scheduler keep its promise when one task runs at a time (`limit = 1`)? | three tasks, one not loaded, two owned | 26 thousand |
| `MCTaskManagerDelays` (violation) | does a delay end when the timers share their ids, as on the Mac? | two listed, programs that delay, two ids | |
| `MCTaskManagerEvicts` (violation) | does an ended task stay ended with two in the list? | two listed, programs that yield or end | |
| `MCMacTimer` | ids, one-shot events, whose event is removed, and does the heartbeat go on while the main thread starts and stops the time slice? | two timers, four ids | 377 thousand |
| `MCTCPServer` | slots, events and tasks under connect, data, finish and hang-up | three clients, two slots | 529 thousand |
| `MCNetwork` | from the radio to a response: is an address followed by servers, and by one start of them only; a request by its answer, and whose answer is it? | six plans of at most two clients, two slots, three addresses, one retry | 143 thousand |
| `MCTerminalArrows` (violation) | does the terminal implement `LineEditor` for arrows, control-a and control-e too? | lines of 4 characters, kept keys and arrows | |
| `MCUploads` | do files keep the table of `MFS.h`, do open files have entries, and is what is reported as uploaded there, under a full flash and restarts? | a directory, two names in it, two `File` objects, contents of 2 bytes, 2 entries, two sources | 175 thousand |
| `MCMetadataPair` | does a directory survive commits, compactions and relocations with power lost at any unit, do lookups and open files agree with the log, and does a commit end? | two names, four blocks of 5 units, one open file, one block that fails, two operations | 342 thousand |
| `MCLfsTree` | do several pairs stay one tree when power is lost between any two commits of an operation? | four pairs of 3 ids, three names, paths of two, three operations, one relocation | 51 thousand |
| `MCLfsFile` | is a file a sequence of bytes over its blocks, cache and allocator, with a device that fails, is full or loses power? | two files, four blocks of 2 units, three calls, one failure | 609 thousand |
| `MCLibrary` | do the containers hold what the scheduler, the web server and the parser put into them; and a person at a telnet client: does the display show the line, is a line sent once, and does the terminal implement `LineEditor` for the kept keys? | three tasks that do anything, or four shells two at a time; counts below 6; requests of 3 parameters and a header; texts of 10 tokens, two for one object; lines of 4 characters, every key and key sequence | 2.3 million |

**Why the bounds are enough.**

- *Scheduler.* Its steps compare and move at most two tasks of the list, the
  head and the one that is concerned; a third is the bystander that a wrong step
  can hurt. A Vector of capacity 4 holding 3 elements is where the erasure's
  arithmetic first reads behind the end. The counts wrap at 2^16 in the code;
  `CountLimit` is a parameter so that wrapping, and not wrapping, can be seen
  within few states; six is the least for which the theorem on shells holds, as
  five references is the most that one shell ever has. Four shells in two slots
  are two that went, whose copies may be stale, and two that came.
- *Timers.* Four ids are more than the two timers with an old and a new event
  each ever use at a time.
- *TCP.* Two slots and three clients give a full table, a slot that is reused,
  and an event of the old connection that waits behind one of the new.
- *Network.* A race on a list needs two that change it, a stale slot two clients
  one after the other, the old server's port a second address, an event that is
  taken twice two of them, the end of the tries one disconnect more than
  `ReconnectTries`. The plans keep these apart, since their product says nothing
  more: the Wifi task and a server share only the main task, and a main task
  that is in a handler takes no system event.
- *Terminal.* A line of four characters has a cursor inside it and at both ends,
  and literals behind it. Forward delete (`ESC [ 3 ~`) is not among the keys.
- *Files.* Two open files are one that is used and one that is removed, replaced
  or opened under it; two bytes have a gap, an overwrite and an append; two
  entries and a directory are enough for a name that is moved over another, and
  for a directory with something in it. The two sources of an upload have the
  same name, so that each meets a file that exists as well as one that does not.
- *Metadata pair.* Five units take a compacted log of two entries and one more
  commit, so that the second operation compacts; `Revs = 4` makes revisions wrap
  within them and `BlockCycles = 2` makes a block worn; one failing block meets
  every unit; four blocks are the pair and two to move to. The logs a run begins
  with hold any directory of the two names. With one open file nothing is
  created beside it, so that only the half of `HandlesFollow` on deletion is
  exercised; the theorem is for any number of files.
- *Tree.* Four pairs and paths of two hold a directory in a directory, a root
  that is split, and a pair to move to; three names with `Cap = 3` (the root
  also has its superblock entry) make the third entry split a pair.
- *File.* Blocks of two units make a file of five units three blocks long, where
  a skip pointer first skips a block (one level of skipping; the theorem has
  them all); the other file is what the allocator must not touch and what a full
  device is full of; one of the two initial arrangements leaves one block free
  and the other three. After a mount the window begins at one of two `Seeds`.
  `CtzIndex` is compared with counting for blocks of 128 bytes, the smallest
  littlefs takes, over the first nine blocks of a file.
- *Library.* Three of the parameters `k`, `password` and `ssid`, and `Host`, put
  a new key before, between and behind those of a Map; ten tokens hold an object
  of two members with an array in it.

**What is assumed of the environment.** `Loaded`, `Owned` and `Returns` say
which programs run; `Talking`, `Finishing`, `HangingUp` what the clients and
their tasks do. Each client connects once (a client that comes back is another
client). In `MCTCPServer` no connection both finishes by itself and is hung up:
with one that does, `disconnect` on the main thread holds a descriptor that the
server thread has closed and `accept` has reused, and
`SlotsAreDistinctConnections` fails. In `MCMacTimer` only the heartbeat may
expire (`Expiring`); see 2 of section 4 for the other case. `MCLibrary` sends
one key at a time, see 4 there, and for `EditsKeptKeys` one of `KeptKeys`, see
24. In `MCLfsFile` no file is synchronized or closed after a call on it that
    failed (`MCNext`), see 16. `MCUploads` opens no file in `WriteUpdate` or
    `AppendUpdate`; `Careful`, `RenamesOpen` and `RenamesItself` of the littlefs
    modules leave out what section 4 says is wrong, and in `MCLibrary` the
    properties of JSON and of headers name their exceptions.

**Fairness.** `TaskManager`: the main loop calls `runOneIteration` for ever
(weak fairness of `Dispatch \/ Crash` and of the second half of `startDelay`);
`execute` returns — strong fairness of `Return`, because a script may call
`startDelay` in between any finite number of times; a started timer fires.
`MacTimer`: both threads are scheduled (weak); an event that is queued again and
again expires (strong, because restarting it takes it out of the queue in
between). `TCPServer`: both threads run; a client need not send and a task need
not finish. `Network`: the Wifi task, the main task and every server's task are
scheduled and the radio answers a connection attempt (weak); clients and the
phone need do nothing. `MetadataPair`: a program that has called a commit goes
on with it (weak fairness of `Step`); an operation need not be asked for, and
power need not fail. `LfsTree`, `LfsFile`, `Uploads`, `Terminal` and the library
have no liveness property: they answer calls.

**Deadlock.** `CHECK_DEADLOCK FALSE` stands where the system may stop: all tasks
have ended or wait for ever, a fault has occurred, all clients are gone, a bound
on operations is reached. `MCTerminalArrows` and `MCUploads` run with the
deadlock check.

**Mutants.** For each property of a passing run `PROJECT.json` names a plausible
bug — a dropped guard, a forgotten reset, an index off by one — under which that
run finds the property violated. The variants stand in the modules right before
the definitions they replace.


## 4. What the code does that one would not expect

Three disagreements between a comment and the code are runs of their own.

1. `C/TaskManager.cpp:112` removes the head of the list instead of the task that
   ended (`MCTaskManagerEvicts`): with two tasks the ended one is executed again
   and the other is dropped. `ZombiesReplaceLostTasks` bounds the damage, and
   holds: each ended task still listed has cost one live task its place.
2. `mac/MacSystemInterface.cpp:90` with `:104-110` (`MCTaskManagerDelays`): a
   Timer that has expired keeps the id of its event, and its next `start()`
   first stops whatever event has that id now: the delay of another task, which
   then never ends. `DelayNeverLost` holds where each timer has an id of its
   own. In the same way `stop()` may remove the heartbeat (`Expiring` with both
   timers in `MCMacTimer`: `RemovedByItsTimer` and `HeartbeatGoesOn` fail). A
   Once timer with a positive garbage period is renewed although `cpptime.h:202`
   calls it one-shot.

The rest was met while modelling. Where a constant or an exception of a property
keeps it out of the passing runs, it is named; taking it away makes TLC show the
behaviour.

*Timers, TCP, terminal*

3. `C/TCPServer.cpp:77` with `mac/MacTCP.cpp:253-257`: the Disconnected event of
   a finished connection ends the task of the next one in its slot; the last
   disjunct of `TaskEndsForItsSlot` is this. The server thread can wait in
   `read()` for a silent client whose descriptor it took for another's, and then
   serves nobody (`WaitsInRead`); a client beyond the last slot ends the server
   loop for good (`Refuse`).
4. `C/Telnet.cpp:176`: lines and echoes are repeated when a packet holds more
   than one character, as one that was pasted does (`Packets` of two characters:
   `LineIsSentOnce` fails).

*Network* (`MCNetwork`)

5. The old server is never destroyed and holds the port: after a second address
   (`StaGotIp`) the bind of the new one fails and neither the web server nor the
   shell is reachable (`web > 1` in `Excused`).
6. `C/SystemInterface.h:105` and `C/TCP.cpp:47` on the ESP: an event added while
   another is taken may be lost, one added while the handlers run is cleared
   unseen, and the loop over the events walks a buffer that may have moved
   (`unseen`, `Stuck`).
7. `C/HTTPServer.cpp:203` on the Mac: a handler that disconnects waits for the
   mutex its caller holds. `BlocksOnHangUp` says when: only after a client hung
   up with a request or an error of its slot under way.
8. `C/HTTPServer.cpp:185`: a response goes to a slot number and may reach the
   next client of the slot; an error of the old connection drops the new one.
9. `C/HTTPServer.cpp:142`: of a request in two packets the first is answered, if
   it holds the request line, with what it holds; the second is a request that
   is not valid. If the line itself is cut, neither is answered (`unseen`).
10. `C/RtosWifi.cpp:130`: the tries are never reset; after the last one each
    disconnect starts another configuration task.
11. A read error leaves the slot as it is and posts an error at every turn.

*littlefs* (a version of 2019; several were repaired upstream later)

12. `lfs.c:503`: the test for an entry that has been moved away is inverted.
    `lfs.c:1812-1831`: a rename in a directory leaves open files of that
    directory with the wrong id (`RenamesOpen = TRUE`: `HandlesFollow` fails).
13. `lfs.c:3221-3246`: a file renamed to itself is deleted (`RenamesItself =
    TRUE`: `KeepsDirectory` fails), against `lfs.h:429-437`; a directory may be
    renamed into its own descendant.
14. `LfsTree`, `Careful = FALSE`: a relocation drops the delta its own commit
    had to write, so that a loss of power then loses a moved file; the rename of
    the last entry of a chained pair leaves a move pending; a directory made
    while orphans are pending can cancel their announcement. `lfs_fs_deorphan`
    leaves its loop after one orphan.
15. `LfsFile`, `Careful = FALSE`: `lfs_file_truncate` to a block boundary loses
    content (against `lfs.h:540`); a relocation at the first unit of a new block
    leaves blocks the traversal does not meet; a sync of an inline file whose
    commit has no space outlines as many bytes as its *position* says, which is
    right only at the end of the file (`StoreOutlines`).
16. `lfs_file_flush` that fails leaves the position advanced; the writes of a
    flush clear the error mark of the file, and a sync or a close of a file with
    an error returns 0 and stores nothing, against `lfs.h:503-515` (without
    `MCNext`'s restriction `KeepsBytes` fails). A file that has left its entry
    and was not flushed has the head `0xfffffffe`, and the traversal marks a
    block for it which it does not hold (`lfs.c:433-443`, `3791-3797`): a search
    may report no space with this one block free. `NoSpaceButPhantom` says that
    it is not more. That is for the searches that follow an acknowledgement of
    the blocks in hand (`lfs.c:2571`, `2884`); those of a relocation
    (`lfs.c:2498`, `2640`, `2917`) may report no space while there is more.
17. `lfs.c:1643`: a compaction that finds no room and no free block tries the
    same block for ever; `CommitEnds` is for pairs that fit in their block.
    `lfs.c:3701` places the first window by `block_size` instead of
    `block_count`.
18. A failed rename leaves its move announced; `lfs_rename` and `lfs_mkdir` go
    on with copies of pairs that their own first commit may have moved.

*Files*

19. `C/littlefs/MLittleFS.cpp`: `WriteUpdate` does not delete the contents (line
    250 against `MFS.h:37`); a write in `AppendUpdate` goes to the beginning
    (lines 300 and 324 against `MFS.h:39-40`): with either mode in `Modes`,
    `KeepsTable` is violated. `seek` ignores its whence, succeeds for offset 0
    only, and says true (`-1`) when it refuses.
20. `C/Application.cpp:266-275`: on a full flash the write or the close fails,
    and the upload is reported all the same; `troubled` and `full` in
    `UploadedIsStored` stand for that. Line 280 closes a null file after
    "skipping".

*Library*

21. `C/SharedPtr.h:47,52`: a task alone in the list gains one reference per
    yield, because `Vector::erase` empties the slot with the move assignment,
    which releases nothing; after some 65,500 yields the 16-bit count wraps and
    the assertion of line 52 fails. (`TaskMemory` with one task that yields,
    `MaxListed = 1`: the assertion fails for any `CountLimit`.) With three
    shells in the list, of five that come and go, it is the other way round: a
    hang-up leaves stale copies behind the end (`C/Containers.h:107`, `184`),
    whose release by a later `push_back` deletes the task of a connection that
    is open (`AsShells` with three: `OpenConnectionHasShell` fails).
22. `C/JSON.cpp`: `[]` and `{}` set the error, which nothing clears; every later
    object of two members that is read with the same JSON object is refused, as
    is `{"a":[],"b":1}` (`Spoilt /\ Listing`). Texts that are not JSON, such as
    `[-]`, `{"a"}` and an object with a comma behind its last member, are
    accepted; the writer of the model keeps the grammar and does not write them.
23. `C/HTTPServer.cpp`, `MString.cpp`: a header with a colon in its value (a
    Host with its port) is dropped; trimming a text of blanks reads before its
    start; the response of a handler whose uri is the path itself is discarded
    (`HTTPServer.cpp:157`); `setSSID` without its parameters reads behind the
    map (`Application.cpp:128-129`).
24. `C/Telnet.cpp:50` (`MCTerminalArrows`): the state table has no entry for
    control-a and control-e, and that of `CSICommand` notes a parameter instead
    of calling `handleCSICommand`, which nothing calls: contrary to
    `C/Telnet.h:37-38` neither they nor the arrows move the cursor. A doubled
    0xff goes to the end of the line wherever the cursor is, which stays where
    it is, and an escape swallows what follows it.
## 5. The proofs

All theorems are checked by TLAPS for every value of the constants that the
named assumptions of the modules allow (`TasksAssumption`, `CountAssumption`,
`CppTimeAssumption`, `MacTimerAssumption`, `ServerAssumption`,
`NetworkAssumption`, `CharsAssumption`, `PacketsAssumption`, `FilesAssumption`,
`UploadsAssumption`, `PairAssumption`, `WordsAssumption`, `TextsAssumption`,
`ClientAssumption`, and those of `LfsFile`, from `HandlesAssumption` to
`LayoutsAssumption`). Where a theorem needs more, its hypothesis is a named
operator and stands in its statement. An induction over numbers is an argument
about the least counterexample (`LeastElement`), for which a recursive function
is first shown to exist and to satisfy its equation. An inductive invariant was
checked by TLC on the instance of its run, and on a larger one for `Network`,
before it was proved.

- **`TaskManagerProofs`**. `IInv` is `TypeOK`, `NoDuplicates`, `DelayNeverLost`
  and the fact that makes them inductive: who is listed has been started
  (otherwise `Run` could append a listed task). `Invariance` gives
  `TypeCorrect`, `ListHasNoDuplicates`, and, where each timer has ids of its own
  (`OwnTimers`), `NoDelayIsLost`: a start removes no event but the task's.
  Without that hypothesis it is false, see 2 of section 4. Under
  `OneTaskAtATime` (`MaxListed = 1` and nobody terminates from outside) a second
  invariant says that the list is the live tasks, that whatever executes is
  listed (so the head that is removed is the task that ended), and that a task
  without executable is never left waiting; from it `OneTaskListIsLive`,
  `OneTaskNeverFaults`, and the refinement `OneTaskKeepsPromise`, one step per
  action of `Next`. `EachZombieCostsATask` is an argument about cardinalities:
  the tasks that have ended and are listed are never more than the live ones
  that are not (`CountInv`), since a task that ends either leaves the list or
  sends the head out of it in its place. Of `TaskMemory`: `SlotsHoldTheList` for
  any number of tasks (the slots in use, in their order, are the list, whatever
  the erasures have left behind them), by induction on the place up to which an
  insertion has searched (`Searched`); `FewTasksStayInTheirSlots` under
  `FewTasks`, three tasks listed, which is as many as keep the erasure inside
  the capacity of four: `erase` moves all but one of the elements wherever the
  gap is, and with four tasks, and the gap at the second, that is past the
  buffer (`MaxListed = 4`: `ListIsSlots` fails).
- **`TaskManagerProofs`, of shells**, for any number of them, two at a time. The
  vector does not balance its counts: a move forgets a reference without
  releasing it, a `push_back` releases a stale copy. `ShellInv` bounds the count
  of every shell from both sides. It is at least the releases that are still to
  come, `Due`: by the handle of a connection that is open, by `_currentTask`,
  and by the next `push_back` over the second slot, in use or stale; and it is
  at most `Most`, these and one reference for each time the shell was moved to
  the back, which is once, since it waits from then on. The first gives
  `ShellsKeepTheirCounts` and `OpenConnectionsKeepTheirShell`, the second that
  nothing wraps when `CountsSuffice` (`CountLimit >= 6`; it is 65,536 in the
  code). Each of the small steps on the heap (`Retain`, `Release`, `Touch` and
  the moves) is one lemma about the bounds, and an action is these in their
  order. With three shells the invariant is false, see 21 of section 4.
- **`MacTimerProofs`**, of the queue. The invariant is `IdsConserved`,
  `OnlyValidEventsAreQueued`, `OneShotFiresOnce` with the types; conservation of
  ids is what makes the others inductive, since it says where an id that is
  added, removed or renewed is not. `NextIdIsNew`: the id that `add()` hands out
  is neither queued nor that of the handler that runs.
- **`MacTimerProofs`**, of the threads. `MacTimerImplementsCppTime`: every step
  of the two threads is a step of CppTime or leaves its variables alone.
  `MacIdsConserved` follows from it, `MacTypeCorrect` from an invariant on the
  statements left to each thread. `TimersRemoveTheirOwn` needs
  `OnlyHeartbeatExpires`, the case without 2 of section 4. Its invariant: the
  worker calls a Timer only from the heartbeat's callback, the main thread calls
  the heartbeat's only while no event runs, and each takes the statements in
  their order (`OneThreadForEachTimer`, `Ordered`); the id that a Timer keeps is
  of a queued event of its own or of the heartbeat that is running (`KeptIds`),
  but for the time between the removal and the statement that clears it
  (`Clearing`); and so is the id a thread has in hand (`HeldIds`).
- **`TCPServerProofs`**, under `EndsFromOneSide`: no client hangs up whose task
  may finish by itself (without it `disconnect()` on the main thread may close a
  descriptor that the server thread has closed and `accept` has given to the
  next client, and the theorems are false). What makes `OneSlotOneConnection`,
  `ReceivedByItsTask` and `TasksEndForTheirSlot` inductive is, besides the types
  and the places of the indices: each connection has one descriptor and each
  open descriptor one slot, or the main thread that is about to close it
  (`Sockets`); the event that the server thread is about to post is of the
  connection in its slot (`Posted`); a connection is announced once and before
  it has a task (`Announcements`), and until it finishes is found in the slot it
  was announced for (`Homes`); behind an event that ends a task is a connection
  that has ended (`Endings`); and, at each place of the queue, its slot has the
  task of the event's connection, or the last connection announced before it is
  that one (`Order`, `Leads`). That `accept` finds a free descriptor is the
  pigeonhole principle, from the cardinalities of descriptors and slots.
- **`NetworkProofs`** holds for both systems and any plan. `IInv` has three
  parts, `TypeOK`, `Announcements` and `Service`.

  `Announcements` is a count. The starts so far, the event about to be turned
  into one (`Held`), the elements of the list that are not cleared and will not
  be (`Fresh`), the element about to be written (`InFlight`) and the addresses
  the driver still has for the handler (`Left`) together are never more than the
  addresses announced, in whichever order the halves of `push_back` and of
  `nextEvent` fall; sizes that were read and not written back are bounded the
  same way. `StartsFollowAddresses` is read off it.

  `Service` says which client a slot, a ready set and an event stand for: one
  task has the port (`Ports`); a client is accepted once, in one slot (`Homes`);
  what `select()` reported is still to be read while its slot is not reached
  (`Ready`); a Data event in the list names the client of its slot for as long
  as that client is up, an error one that has hung up, a Disconnected event in
  the task's hand one whose slot is not given out again before the event is
  posted (`Entries`); a size that was read is behind whatever is being handled,
  and an element that was made room for is still junk (`Pushes`); the loop of
  `handleEvents` stays within the list (`Handles`). From these `Answered` and
  `Blocks` are inductive, and give `AnswersReachTheirClients` and
  `BlockingNeedsAHangUp`. Most steps are shown to leave what events say alone by
  one relation, `Kept`: who is up was up, who hung up stays so, a slot keeps a
  client that is up, and a home does not change.

  Of `WebRequest`, for any words, paths, parameters and headers that the client
  may compose: `RequestsAreServed`. A text that is joined from parts which do
  not contain the separator is split into these parts; the search in a Map that
  is in the order of its keys finds the key or the place where it belongs, by
  induction on the length of the range, so that `Emplace` keeps the order and
  holds the first value of each key; trimming leaves what begins and ends with
  no blank; and the handler found is one with the longest uri.
- **`TerminalProofs`**. `TypeCorrect` for any packets. Under `CharacterAtATime`
  (every packet is one character) the handler's strings are empty between
  characters, which gives `CharacterModeSendsOnce` and `CharacterModeEchoes`.
  `CharacterModeEdits` is the refinement of `LineEditor` under `KeptClient`, for
  a client that has only the keys the state table keeps: then the machine is
  `Ready` between two keys, each of them is one character (`KeyInv`), and it
  does what `Telnet.h` says; that the longer ones do is checked by TLC. With
  arrows, control-a, control-e or a literal 0xff it is false, see 24 of section
  4.
- **`UploadsProofs`**. `EntriesOfOpenFiles` is inductive with the types.
  `UploadsAreFiles`: each step of `Uploads` is a call of `FileSystem`, from the
  invariant `AtSource` (no source is read past its end). `UploadsAreStored`
  needs `SentIsHeld`: while the flash is not full the open file has the bytes
  sent so far and nothing else, or is untouched and empty; the closing step
  publishes it. `FilesKeepTable`, under `KeepsModes` (nobody opens `WriteUpdate`
  or `AppendUpdate`), is one lemma per call; the invariant `FilesAreSound` says
  that a file that is not valid keeps nothing and that in mode Append the
  position is never past the end, which is what lets the mapping put it *at* the
  end.

- **`MetadataPairProofs`** begins with the folds of `DirLog`: a fold is written
  with `CHOOSE`, and each of `Count`, `BestMatch`, `GetFrom`, `Replay`, `Fate`
  and `FlattenSeq` is shown to be what its step makes of it, tag by tag, by the
  least counterexample. Then the protocol, for any names, blocks, units and
  revisions, under `SpareBlocks` (more blocks than the pair and those that may
  fail). `PairInv` says which of the two blocks a fetch reads (`Here`), that a
  commit under way reads that one and writes the other one or a block outside
  the pair, with the revision that follows (`CommitAt`), and that the copies of
  the pair which files keep are of these two blocks (`FileIs`). The revision a
  file of the superblock's pair keeps may be wrong once a block of it has failed
  (`Stuck`), which is harmless since then nothing is compacted there any more.
  That a half written block is never the newer one with a commit, for revisions
  that wrap, is `NextIsNewer` and `BestIsNewer`.

  `LogInv` says what is in the blocks. Every log is `Sound`: the backward scan,
  the search for a name, the count and the compaction all agree with the entries
  that the log stands for, which are in the order of their names and complete.
  One lemma for each kind of tag shows which of these readings it keeps, and
  when (a `CREATE` leaves a place without a name, which the next tag fills; a
  `DELETE` that removes the entry just moved comes last, as in `lfs_rename`).
  `Tell` is what a compaction keeps, and `CompactedIsSound` that the kept tags
  alone stand for the same entries. A commit under way carries two logs, behind
  the old one and compacted, which stand for the same entries (`After`), those
  of the abstract operation's `Effect` (`CreateTold`, `RemoveTold`,
  `RenameTold`, `SyncTold`); and every open file will land on its entry there
  (`Lands`). From `PairInv` and `LogInv`, which are proved together, one lemma
  per action, follow `LookupsAlwaysAgree`, `HandlesAlwaysFollow` and the
  refinement `PairKeepsDirectory`. The theorems assume `SpareBlocks` (more
  blocks than the pair and those that may fail); `FewNames` (an id does not
  reach 1023: a pair is split at 255 entries, `lfs.c:1451`); and that nothing is
  renamed over itself or while files of the directory are open, without which
  the code does not keep them (the observations on `lfs.c` in section 4).

- **`LfsFileProofs`**, for any block size and count, any lookahead, any limit of
  an inline file, any number of handles and any calls, blocks that fail and
  losses of power, of a `Careful` caller (without 15 of section 4). It begins
  with `CtzIndexCounts`: the pointers of the blocks up to n take 4(2n - popcount
  n) bytes, by induction on n from what n and n + 1 have in common, so that the
  index found without a loop is the one found by counting (powers of two, their
  logarithms, trailing zeros and bits come first). Then lists of blocks: in a
  list that is whole (`HasList`) the skip pointers lead to the block that is
  found one by one, the traversal by twos meets each block once, and what is
  read is what its blocks hold; a list stays whole when none of its blocks is
  programmed. Then the allocator: a window begins with a vacant block or is used
  up (`Eager`), a search takes a block from those it offers, and one that was
  acknowledged and goes round has looked at every block.

  `World` says what of this holds between any two units that are programmed:
  every entry, every open file and every list being written is whole; a block
  that is written is in one list only (`Alone`); the window offers no block that
  any of them holds; what is open and clean is what its entry says. `Inv` adds
  the phases that are left of the call under way, each of which must find the
  file as it expects it (`Shaped`): a block is empty only until the unit it was
  taken for is programmed, a fill ends where the write begins. One lemma for
  each phase shows that the next state is such a `World` again;
  `PointersLeadThere` and `FullWhenNoSpace` are read off it; the latter counts
  the block that is marked for a file out of its entry, so that what it says of
  a search is what the arithmetic of `lfs_alloc_lookahead` makes true.

Only model-checked: every liveness property (TLAPS proves no fairness); that the
bytes of a file are those of `ByteFile` (`KeepsBytes`), and of the tree of
littlefs what its pairs stand for together (`KeepsTree`, `StateAddsUp`,
`ListHoldsTree`), whose meaning is defined by recursion over the list of pairs
and whose operations are sequences of commits of several pairs; `Json`, whose
parser is recursive.


## 6. What is not modelled, and why

- Formatting, logging, the text of the shell's answers, pins, the calendar and
  durations (no step of another part depends on how long a delay is), Base64, IP
  addresses, the allocation statistics: conversions or counters that decide
  nothing. Atoms: nothing in the repository makes one. `Stack` and `FixedQueue`:
  nothing uses them. How characters become tokens.
- UDP and the client side of TCP: no code of the repository creates them.
- The ESP's timers: one call each to a service that is not in the repository.
- `MacNativeFS`, `MacSpiffsFS` include a header that is no longer in the
  repository and are not built; `lfs.c` 4086-4745 is compiled only with
  `LFS_MIGRATE`, which nothing defines.
- littlefs: custom attributes (never written here), reading a directory, the
  expansion of the superblock, two handles on one file (each may read blocks
  that the other has freed), a file removed while it is open as the last entry
  of a chained pair. `LfsTree` does not both split and move a pair in one
  commit, and has no open files; `LfsFile` takes its entries for granted, and a
  block fails at most once for each unit; `MetadataPair` changes the block above
  it in one step.
- `FileSystem`: listing a directory and the answers of `read`, `tell`, `size`
  and `exists`, which change no state; mounting or formatting under open files,
  since only `mountFileSystem` does it, before any is opened; renaming an open
  file; a file system object that keeps its state after `unmount`
  (`MLittleFS.cpp:79`), since nothing unmounts.
- `Network`: a second start of the configuration that fails, a server's task
  that returns from its function after a bind that failed, the list of networks
  found by a scan, the growth of the list while an event is taken from it.
- `TCPServer` takes the task manager to remove the task it is asked to; that it
  does not is the subject of `TaskManager`. A task that `createTaskFunction`
  returns with an error (`TCPServer.cpp:55-58`) would be refused without its
  slot being cleared; none in the repository does.
- `TaskManager`: `run` and `terminate` are called between iterations, as the
  callers in the repository do, and not from a task that executes.
- Retries of littlefs that begin with what the failed try has changed: after a
  bad block `lfs_dir_compact` adds the delta of the pair once more
  (`lfs.c:1522`; in `LfsTree` a pair moves in one step and takes its delta
  once), and `lfs_ctz_extend` starts over with the head and the size it has
  overwritten (`lfs.c:2178-2184`, `2209-2213`, `2257-2261`; in `LfsFile` a block
  fails when a write to it does, not while it is taken).
- A `format` that fails (`Application.cpp:183-187`), and an erase of a directory
  block that returns another error than that the block is bad
  (`lfs.c:1539-1545`).
- `MacTimer` does not call `setHeartrate` while the heartbeat's callback runs,
  and does not destroy timers while their callback runs
  (`MacSystemInterface.cpp:81`), nor does a handler move in the vector that
  `add()` grows meanwhile (`cpptime.h:288`).


## 7. Plan

What is left is mostly proof.

1. Of the trees of littlefs, `StateAddsUp` and `ListHoldsTree`, with the commits
   left of an operation as part of the invariant; of the files, `KeepsBytes`.
2. Reading a directory while it changes (`lfs_dir_read` with its position), and
   two handles on one file, in `LfsTree` and `LfsFile`.
