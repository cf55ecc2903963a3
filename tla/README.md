# Models of SmartRabbitServer

SmartRabbitServer is a C library for single-threaded servers (`src/rbtlib`: an
epoll event loop, packets with AMF encoding, remote calls, timers, a garbage
collector, a Lua-like script compiler and machine, a database cache) and one
program written with it, the **world server** (`src/Server`). The world server
stands between a gate, which multiplexes all clients over one connection, and
several logical servers, each of which owns some zones; it decides which
logical server hosts an account, keeps groups of players, and sends messages
to all players of a server.

This directory holds TLA+ models of the world server, of the network layer, of
the remote calls of scripts, of the script compiler and machine, and of the data
structures of the library; TLC configurations that check them; and TLAPS proofs.

## Inventory

| Part | State | Operations | Hard part | What makes it correct |
|---|---|---|---|---|
| Sessions: `twice_login.c`, `player.c`, `server.c` | `Player` by account (`state`, `zone_id`, `come_tm`, `pid`), `G(r)->players` by pid | login, second login, logout, bind, save, destroy | packets of gate and logical servers interleave; saves that are lost or late; a login during a save | no list keeps a destroyed player; one account is hosted by one logical server; a waiting login goes on |
| Logical servers and zones: `rpc.c`, `handle_server.c`, `svr_connection.c` | `servs[]` (`id`, `c`), `zones[]` (`serv_id`), `ConnectionX.a1/a2` | `serv_reg`, `create_zone`, `rbtF_conn_broken`, dispatch | duplicate registration; loss with packets in flight; re-entry of players | the same, across loss and reconnection |
| Groups: `player.c`, `handle_server.c` | `serv->groups` (head by gid), `curr_gid`, `curr_group_next` | enter, leave, group call | unlinking in a singly linked list; fields left over from a lost server | the lists are disjoint sets of live players |
| Global messages: `process.c`, `handle_server.c` | `serv->broadcast`, `nbroadcast`, cursor `gm->next` into `player_list` | accept a message, send a batch per turn | players leave under the cursor; the only slot is taken | everybody listed hears it; no cursor to freed memory |
| Client packets: `handle_client.c` | none of its own | forwarding | not reached (see below) | - |
| Connections: `net_manager.c`, `connection.c`, `boot.c` | pool `g_Conn`, `g_FreeConn`, `unauthed_list`, read buffer, write queue, status | poll, accept, process, send, close, delete, sweep, reconnect the gate | edge-triggered batches; closing inside handlers; reuse of structures; stale pointers above | no structure lost or used twice; no stale event; callbacks once; unregistered connections end |
| Remote calls: `remote_call.c` | `RpcManager`: free and busy `rpc_param`s, hash by request id, list per connection; there is no timeout | call, apply, connection broken | wrap of ids; callbacks that call again before their parameter is given back; loss with answers on their way | an answer resumes the script that asked, once |
| Timers: `time_process_list.c` | sorted list | insert, run, remove | order among equals, removal while running | each call runs once, in order (no caller in the repository, not modelled) |
| Packets: `packet.c`, `mblock.c`, `connection.c` | chain of blocks, cursor, reference count, send queue | read, write, seek, erase, parse, share, send | borders of blocks; one packet queued several times, written in pieces | what was queued is what is sent; blocks are neither lost nor used twice |
| Codecs: `encoder.c`, `decoder.c`, `amf_common.c` | tables of references | encode, decode | lengths and signs at their boundaries, references by number | what is written is read again |
| Garbage collector: `gc.c`, `mem.c`, `pool.c` | colours, grey lists, phases | mark step, sweep, stable objects | stores between mark steps | nothing reachable is freed |
| Containers: `table.c`, `string.c`, `queue.c`, `list.h`, `array.c` | vector and hash parts, interned strings, ring | get, set, remove, next, resize | free pointer of the hash, move between the parts | a table is a map |
| Scripts: `lexical.c`, `parser.c`, `code.c`, `vm.c`, `script*.c` | prototypes, contexts with registers and frames, sleeping scripts | compile, run, yield, sleep, resume, call from the host | patched jumps, rewritten instructions, reused contexts | a program computes what it means; a context is resumed once |
| Databases: `db.c`, `db_mgr.c`, `script_db_lib.c`, `zredis.c` | an array of database connections with a round robin | add, remove, next, a call for each operation of a script | a connection that is closed but still chosen | a script gets the answer of a live database |
| Caches: `least_recently_used.c` | slots with a state of use, the hand of a clock | push, visit, traverse | addresses of slots that are used again | a slot in use is passed over |
| Threads: `thread.c` | job queue, shutdown flag | add, work, destroy | lost wake-ups | shutdown ends (the file is not built by the Makefile) |
| Utilities: md5, base64, rsa, math, config, io, statistics | little or none | pure functions, files | - | not worth a state machine |

The parts meet as follows. `rbtNet_poll` takes a batch of epoll events and
calls `rbtNet_process` for each connection; complete packets go to
`rbtF_rpc_process` (or, as answers, to `rbtRpc_apply`), which dispatches on the
role of the connection (`a1`) to the handlers of gate, logical server and admin.
A handler runs to its end before anything else does: the **handler is the atomic
step** of all the models. When a connection is deleted, `rbtF_conn_broken` is
called before its memory is reused. After each poll `main.c` calls `process`,
which sends a batch of each global message, and a step of the collector.

## Modules

### Session, MCSession, MCWorld, SessionProofs, SessionWait

`Session` is the life of a player session. One action is one packet handler:

| Action | Code |
|---|---|
| `FirstLogin`, `LoginWhileSaving`, `LoginForced`, `LoginAgain`, `LoginAgainUnreported` | the branches of `rbtF_player_login`, each with the `rbtF_player_abort`, `report_logout` and `real_login` it calls |
| `Logout`, `LogoutTwice` | `rbtF_player_logout` |
| `BuddyBind`, `SaveOk`, `CreateZone` | `handle_buddy_bind`, `rbtF_player_save_ok`, `handle_create_zone` |
| `ServReg`, `ConnBroken`, `DropOrphan` | `serv_reg`, `rbtF_conn_broken`, the `return -1` of `rbtF_rpc_process` |
| `ServHandle`, `ServBind` | external: the logical server answers `PLAYER_ABORT` with `ABORT_OK` and binds players that entered |
| `Tick` | the clock that `gettimeofday` reads |

`state`, `zone`, `age`, `pid` are `Player.state`, `zone_id`, the time since
`come_tm`, and `pid`; `players` is `G(r)->players`, by character id, where `Dangling` is an
entry that leads to freed memory; `servc`, `zserv`, `a2` are the pointers and ids of the tables;
`toServ` and `fromServ` are the FIFO connections. `home` (whom the last packet
on a connection entered), `owed` (the connection on which a save is due) and `stray` (below) are
history variables that no guard reads.

A `BUDDY_BIND` may name any character id, for any account. `handle_buddy_bind` overwrites
`pid` and leaves the entry of the id the player had (`handle_server.c:333-335`), and
`rbtF_player_abort` takes out the entry of the current id, and only of a positive one
(`player.c:160-163`). So an entry may outlive its player: `stray` has the ids of which that is
so, and `handle_create_zone`, which enters whoever the entries lead to, then sends what it
finds in freed memory (`Entered`, `Found`).

- `NoDanglingPlayer`: a player that is gone is in no `player_list` and behind no entry of
  `G(r)->players`, whatever interrupted its session, except for the ids in `stray`.
- `HomeIsZone`: a logical server was told to host an account only if it owns the
  zone of the account's live session - so never two of them do - as long as no bind has left an
  entry behind.
- `SaveInFlight`: while a player waits for a save that was asked for, the request
  or its answer is on the connection it is owed on.
- `SecondLoginEnds`: a second login does not wait for ever once a save is owed
  (until the save arrives, the connection breaks or the player logs out).

`MCSession` makes accounts, servers, zones and connections exchangeable, for the invariants;
`MCWorld` puts `Session` and `PlayerLists` side by side, for the liveness of both.
`SessionWait` adds a clock for each save and shows a divergence (below).

### PlayerLists, GroupMembership, Lists, MCPlayerLists, PlayerListsProofs, ListLemmas

`PlayerLists` has the pointers: `head`, `next` and `gid` are `serv->groups`,
`curr_group_next` and `curr_gid`; `plist`, `cursor`, `busy`, `nbroadcast` are
`player_list`, `gm->next`, `gm->pkt` and the counter. `Left` is
`rbtF_player_leave_group`, used by `EnterGroup`, `LeaveGroup` and `Abort` as in
the code; `Process` is one call of `process` for all servers. `Lists` has `list_del` of `list.h`
on sequences, which `Connections` uses as well, and `ListLemmas` what is known of it. Fields that the
code leaves stale (the group fields of players of a server that is lost) stay
stale here.

`Bind` comes from any server: `handle_buddy_bind` lists a player that is in no list yet at the server that
sent the packet (`handle_server.c:345-346`), and that may be one the account was entered at in an earlier
session. `rbtF_player_abort` looks at the cursors of the server of the player's zone only, so the cursor of
the other server is left on a player that `list_del` has linked to himself - `broadcast_at` then meets nobody
else (`Circling`) - and on freed memory when he is destroyed (`Dangling`; what `Process` reads there is
anything). `late` has the servers that listed a player of another server's zone. A message that comes while the slot is
taken replaces the one in it (`handle_server.c:151`): `slot` has the number of the message in the slot, and `due`
who has not heard which message. `late`, `slot` and `due` are history variables.

`GroupMembership` is what groups promise (`player.h`: a player is in one group
at a time): sets of players, where a step moves one player or clears a server.
`GroupsImplemented` maps `members` to the players met along the pointers, and is
checked as a refinement. `GroupsSound` says that the lists can be followed at
all: they end, and hold live players of that server and group. `CursorListed`
says that the cursor of a message of a server that was not late is never left on a player that has gone,
`ListSound` that the players of all `player_list`s are live and each in one place of one of them,
`BusyIsCounted` that a message in the slot is not passed over by
`broadcast_at`, which looks at the count first. `EveryoneHears` is the liveness
of a message, unless another one takes its slot or the server was late.

### Connections, ConnectionsProofs

`Connections` has the pool of structures, the free list (last in, first out),
one batch of events at a time, and the pointers `gate` and `servc` that the
world server keeps.

| Action | Code |
|---|---|
| `Poll`, `NextEvent`, `Sweep` | the three parts of `rbtNet_poll` |
| `Accept` | `listen_wake_up`, `iconn_add`, `rbtNet_construct` |
| `ReadData`, `ReadPacket`, `ReadEnd` | `read_data`, one turn of the loop of `rbtNet_process`, its end |
| `Write` | `write_data` and what follows `rbtNet_process` for the event |
| `Delete`, `Broken`, `Close`, `ServReg`, `Sent` | `iconn_del` with `rbtNet_conn_free`, `rbtF_conn_broken` with `boot_gate`, `rbtNet_close`, `serv_reg`, `rbtNet_send` |
| `PeerConnects`, `PeerSends`, `PeerReads`, `PeerCloses`, `PeerResets` | external: peers, between two calls of `epoll_wait` |

Here a handler is split into the steps of its loop, since what matters is which
structures are in use between the events of one batch; peers act only while the
server waits, because epoll shows the server what they did at the next wait
(what they do meanwhile is as if it happened just before it).

- `FreeSound`: a structure is on the free list exactly when no connection uses
  it, and once - although a handler and the event loop may both delete it.
- `EventFresh`: every event still in the batch is for the connection that uses
  the structure now. This is why a handler may delete only the connection it
  runs for: the mutant in which `serv_reg` disconnects the earlier connection of
  the server itself, as its log message says, violates it.
- `ToldOnce`: `conn_broken` is called once for each connection that broke and
  never for one that `rbtNet_close` closed.
- `PointersLive`: `G(r)->gate` and `serv->c` are open connections of the right
  kind, as long as `rbtNet_close` closed nothing. The condition is needed: a
  connection closed that way is not reported, `serv->c` or `G(r)->gate` then
  points at a structure that the next connection gets, and the gate is not
  connected again (`connection.h` promises a callback, `connection_struct.h`
  says there is none).
- `UnauthedSound`, `UnauthedCloses`: the list the sweep walks has exactly the
  open connections that did not register, and each of them registers or ends.
- `CloseNoticed`: the end of a stream that comes by itself closes the
  connection. When it is read in the same turn as the last bytes nothing follows
  it, and the connection stays open until something is written to it: the edge
  is spent (`connection.c:115`).

The program never calls `rbtNet_listen`, although `main.c:92` says it does; only
the connection to the gate is made. The models assume a listening socket, as the
library offers it, since everything in `rpc.c` and `handle_server.c` is written
for logical servers that connect.

### RemoteCalls, RemoteCallsProofs

A script asks a database over a connection; its context is put away in a
parameter, a packet with a request id is sent, and the answer with this id
resumes the context.

| Action | Code |
|---|---|
| `StartScript`, `Finish`, `Collect` | `rbtScript_call`, the end of `vm_execute`, the collector on a context that nothing refers to |
| `Call` | `_base_*` of `script_db_lib.c` with `rbtRpc_call`, `get_next_param`, `rbtScript_save` and the yield |
| `Apply`, `ApplyEnd` | `rbtRpc_apply` up to the callback, which runs the script until it stops again, and after it: `free_param` |
| `Break`, `Connect` | `rbtNet_conn_free` with `rbtRpc_conn_broken`, `rbtNet_construct` |
| `PeerAnswers` | external: a database answers its requests in any order |

`free`, `total`, `param` and `hash` are `free_param`, `g_nparam_total`, the
parameters and the table of `RpcManager`; `answer` and `param[p].call` number the
calls and are history variables that no guard reads. The handler of an answer is
split at its callback, since the script may make its next call before the
parameter of the last one is given back.

- `OwnAnswer`: the callback is given the parameter of the call the answer is for,
  and nobody reuses that parameter while the callback runs.
- `Awaited`: what is on its way over a connection will find its parameter, on the
  list of this very connection - also after other connections broke and their
  parameters were reused.
- `Accounted`: a waiting script is held by one parameter, each parameter that is
  not being applied holds a waiting script, and none is lost or free twice.
- `Answered`: a call over an established connection ends. One over a closed
  connection does not: `rbtNet_send` drops the packet, the parameter is taken all
  the same, and when the structure is used again `rbtNet_construct` empties its
  list. Such a parameter has the owner `Lost` and its script waits for ever.
- `NotSwapped` is violated once the ids wrap (below).

Which connection a call uses is the choice of the program that embeds the
library; nothing in this tree fills the array of `db_mgr.c`. A call with no
connection at all, which `rbtRpc_packet` answers with an empty `return`
(`remote_call.c:199`) and its callers do not expect, and the round robin over no
databases are not modelled. A failed answer resumes its script like any other.

### Language, Compiler, Machine, MCScript

`Language` says what scripts mean, on their syntax trees alone: operators and how
tightly they bind, statements, functions, tables. `Compiler` is `parser.c` with
`code.c`: operators that take a function so far and give it back with the code of
a tree appended - registers, constants, jumps that are patched, `&&` and `||` with
their short cuts, the arms and loops with their lists of breaks and continues,
the table of what an instruction reads and writes (`Info`, from `opcode.c`; the table there ends before
`CLOSURE_GLOBAL`, which has no entry here either: `LastThat` looks back no further than it must, as `code.c:560`
and `606` do, and in all programs of the run they stop before such an instruction), and
the two optimisations of `code.c`: a comparison joined with the jump behind it
(`JumpTrue`) and a value computed where it is stored (`StoreToVar`). `Machine` is
`vm.c` with the calls of `script.c`:

| Action | Code |
|---|---|
| `Move`, `Calculate`, `Branch`, `GetTable`, `Foreach1`, ... (`Instruction`) | one instruction of `vm_execute` |
| `InitCall`, `CallScript`, `ReturnToCaller` | `INIT_CALL`, `CALL` and `RETURN`: frames, registers, `self` |
| `CallSleep`, `Resume` | a function of the host that saves the context (`rbtScript_save`) and yields; `rbtScript_resume` |
| `Call`, `Finish` | `rbtScript_call` with a context from the pool, the end of a script with its callback and `ctx_release` |

- `MainAgrees`: when the main function of a program has ended, globals and tables
  are those that the program means. This is the claim of a compiler, and the
  register allocation, the patched jumps and both optimisations are behind it.
- `CallsAgree`: every call of the host answers what its function means, although
  contexts are reused and other calls run while it sleeps.
- `Ends`: a script that was started ends.

`MCScript` makes the programs: every operator next to every other one between
operands of each kind (constants, locals, globals, fields, calls, parentheses),
their values stored to a global, a local, a field and tested; every loop around
every way to leave a turn, alone, in the arms of an `if` and nested; functions that
recurse, that are stored in tables and called as methods, closures, missing
arguments; and calls that overlap at their sleeps.

Left out of the programs, since the code is known to do something else there or
the model would have to invent it: a parallel assignment whose right sides read,
or are stored over, an earlier target (`code.c:588` moves the store past the
read); assignments with more values than targets or fewer, and `local x` without a value, which leave
stale temporaries; a `for` without a condition, which compiles an expression that
was never set; upvalues, which are not implemented; the unary minus, whose test
compares a token with the character `-`; reading `t[]`; missing results of a call,
which leave what the registers held; a `foreach` over false values without a key,
which ends at the first of them. The lexer, `include`, name spaces, division, the
operator `..`, arithmetic on strings and the loading of files are not modelled.

### HashTable, HashTableProofs

`table.c` on its own layout: a vector for numbers from 0, and an array of nodes
for other keys, where `Placed` is `newkey` with its free pointer and the two cases
of a collision, `Put` a store where there is room, `Entries`, `Enter` and `VectorSize` the
resize, and `Store` the two together: the code enters all entries again with `rbtH_set`, which
could resize in turn, but the proof shows that it never has to (`EnteredAll` below). The loops along
the chains are recursive functions on bounded numbers. `TableSet`, `TableSetNext`,
`TableClean`, `TableBegin` and `TableVisit` are the calls.

`rbtH_setnextnum` makes a full vector two places longer and looks at no node (`table.c:512-533`; its
`rbtH_rmnum` comes after `vector_size` was raised and finds the new place of the vector). A number that
had a value in a node is then not found any more, and a store under it makes a second entry. `Covered` is the
numbers a growth hides, and `hidden`, a history variable, all that were hidden so far; the three properties
hold for all other keys, in the same table and at the same time.

- `IsMap`: a lookup gives what was stored last under a key that is not hidden.
- `Counted`: the count is that of the keys with a value, each with one entry, but for at most two entries of
  each hidden key.
- `EachOnce`: a visit with `rbtH_next` gives each key that is not hidden at most once with its present value, and
  all of them that had a value throughout, although others are stored and removed meanwhile.

### Collector, CollectorProofs

`gc.c`: `GcBegin`, `MarkStep` and `SweepStep` are the steps of a cycle, one object each,
and between them run handlers: `StoreValue`, `EraseValue`, `StoreTable`,
`StoreString` (which may find an interned string that is not referred to any more),
`MakeStable`, `SaveContext` and `EndContext`, `CreateZone`. `mark`, `gclist`, `gray`,
`queue`, `status` and `white` are the fields of the collector; `scanned` is a history variable.

- `Safe`: nothing that the program can reach from its root, or that a script put
  away will use, has been freed.
- `FullEnds`: a full collection ends. This holds when no stable tables refer to
  each other in a ring: a stable object is queued each time it is marked
  (`gc.c:258`; `parser.c:192` makes such objects).
- `FullExact`: after a full collection nothing unreachable is left.
- `NameKept` is violated (below).

A stable object that is not reachable but in use (environments of scripts that
closures still name) and `rbtC_stable_cancel` are not modelled. The number of
steps in a turn, a tenth of the objects (`gc.c:326`), is any number here; with fewer than ten
objects it is none at all.

### Packets, PacketsProofs

`packet.c` on `mblock.c`: a packet is a chain of blocks with a cursor in it;
`connection.c` queues packets, several times and in several queues.
`PktInit`, `PktWrite`, `PktWriteDouble`, `PktRead`, `PktSeek`, `PktErase`, `PktEncode`, `PktDrop` and `PktParse`
are calls of `packet.c`, `PktSend` is `rbtNet_send` and `PktFlush` the event that
the socket takes more. `WriteData` is `write_data`, which may be stopped in any frame: `Turn` is one turn of
its loop, and `Draining` all of them. `Behind` follows the pointers of `mblock_next`; a place in the
data of a packet is the `Spot` behind so many blocks. `HasBlocks` says that memory is left for
what a call writes: what the functions do when `mblock_create` fails is not modelled.

- `AsSequence`: a packet is a sequence of bytes with a place in it, whatever
  borders of blocks it crosses; `flat` is that sequence.
- `BlocksOnce`: each block is in one packet or on the free list, once.
- `FramesWhole`: what the peer reads are the frames that were sent, in order, with
  their numbers. It holds while nobody writes to a packet that is queued
  (`spoiled`): `rbtF_send_player` does (`server.c:181`), and its `reset_size`
  changes the length in frames that are not written yet. `rbtP_writeDouble`
  returns before `reset_size` (`packet.c:374-383`), so a packet that ends with a
  double is announced too short; these too are excepted by `spoiled`.

The encoding on the wire is left out: `rbtNet_set_encode` has no caller. The
order of the calls of `_next` inside one expression in `mblock.c:181` and `196` is
unspecified in C; the model has the order that was meant.

### Amf, MCLibrary

`Amf` is the codec, byte by byte: `Encode` is `encoder.c`, `Decode` is `decoder.c`
with its three tables of references, and the `Client` operators, which are
external, write as a Flash client does, with references to what was written before.

- `ServerRoundTrip`: what this library encodes it decodes to the same table, with
  names for keys. Integers at both ends of each length are among the values. `rbtP_writeIntAMF3`
  takes the two bounds 2^28 and -2^28-1 themselves (`packet.c:292`,
  `amf_common.h:10`) and gives them the wrong sign; the property excepts them.
- `ClientRoundTrip`: what a client encodes with references is read as what was
  meant, unless a value refers to an object again and has objects in objects:
  `decoder.c:232` numbers an object behind its members. Neither is a class written with sealed members and used again read back
  (`decoder.c:91` returns without a value), nor a table whose first name has a nil value, for which
`decoder.c:277-281` returns the nil, without a reference and without its items, nor an inline date
  (`decoder.c:340`), nor are input that is cut off and other types of AMF3
  modelled. The keys `""` and `Root`, booleans as keys and negative numbers lose
  their names in the encoder; `Received` says so.

`MCLibrary` puts the four side by side: they share no state, and each behaviour
works on one of them.

## Runs

| Run | Instance | Result |
|---|---|---|
| `session` | 2 accounts, 2 servers, 2 zones, 2 connections, 2 character ids, 2 logins, 1 break, symmetric; two accounts at a time only on one server with one zone | holds, 533 thousand states |
| `world` | sessions: 1 account, 2 servers, 2 zones, 2 connections, 2 logins, 1 break; messages: 3 players, 1 server, batch 3, 2 messages, 1 registration | holds, 584 thousand states; `EveryoneHears` holds when a batch covers the list |
| `player_lists` | 3 players, 2 servers, 2 groups, 1 message, 1 registration, batch 1, symmetric; groups before the first message | holds, 161 thousand states |
| `connections` | 3 structures, 3 connections, 2 packets | holds, 332 thousand states |
| `remote_calls` | 2 connections, 3 scripts, 1 preallocated parameter, 4 calls, 1 break, ids up to 5 | holds, 216 thousand states |
| `script` | 535 programs, 2 contexts, 40 registers | holds, 52 thousand states |
| `library` | table: 2 strings, 2 numbers, next numbers below 2; collector: 2 tables, 1 string, 1 zone, 3 handlers; packets: 5 blocks of 3 cells, 4 calls, 2 sends; codec: 2807 values | holds, 609 thousand states |
| `save_wait` | 1 account, 1 server, `SaveTimeout` 1 | violation of `NoRushedLogin` |
| `broadcast_batch` | 2 players, batch 1 | violation of `EveryoneHears` |
| `zombie` | 3 structures, 2 connections, 1 packet | violation of `DrainedCloses` |
| `request_wrap` | 1 connection, 3 scripts, 7 calls, ids up to 5 | violation of `NotSwapped` |
| `zone_name` | 1 table, 1 string, 1 zone, 2 handlers | violation of `NameKept` |

Why the bounds are enough. Accounts in `Session` share connections and the entries of
`G(r)->players`. One account with two servers and two zones has every conflict of hosting; two
accounts at once, of which one is bound to the other's id, need no more than one server; and two ids
give a second bind. That an id may not be positive is left to the theorems: the entry of such an id
is never taken out, and what is sent for it multiplies the states beyond reach. Two logins give a second login and
a login during a save; two connections give a duplicate registration, or a loss
and a reconnection. `SaveTimeout = 0` makes one tick exceed it, so that both
branches of the test are taken. Three players put one before, at and behind the
one that leaves a list, and two servers a late bind. Groups and messages share no state, so
`player_lists` goes on only where nobody is in a group or there was no message yet. In `Connections` the gate, an old and a new connection
are the three parties of a reuse, and the third may be the new connection to the
gate itself. In `RemoteCalls` one preallocated parameter makes both the free list
and `RMALLOC` be used; three scripts put two calls beside the one that is
answered, and the fourth call is made inside a callback; one break gives a loss
with answers on their way, a call over the closed connection and the reuse of its
structure. Four calls stay below `ReqMax`, so that ids do not wrap: the wrap is
the question of `request_wrap` alone.

In `script`, three operators in a row are enough for each pair of neighbours to
group either way, and for values to be in two temporaries at once; four are there
for three levels of priority. Loops run over the turn that leaves and the one
behind it. Two contexts and three calls make a context be used again while another one
sleeps. In `library` the string keys are named by hashes that collide with each other, and the
numbers are one that belongs to the vector and one that does not at first, so that a chain has
two nodes, one is moved away from its place, and the vector grows over a number; three
handlers make an object, move the reference to it behind the collector and drop the
old one; blocks of three cells put every field of a head and every
byte of data at each place of a block, two sends put a packet in the queue twice,
and writes of 2 and 6 cells stop in a frame or pass its end. A bound on calls or
handlers is a bound on the length of behaviours, not on what one step can do.

Deadlock is not checked where the bounds on logins, breaks, calls or
messages, and the lack of anything more to do, really stop the system; it is
checked in `connections`.

Fairness. `Session`: the main loop never stops, so a packet that has arrived is
handled, and a logical server answers; logins, logouts, breaks and the clock are
not fair. `PlayerLists`: `process` is called in every turn. `Connections`: the
loop goes on (weakly fair), and the clock (strongly fair, since it can tick only
while the loop waits); peers owe nothing. `RemoteCalls`: a script comes to an
end, a database answers each request it holds, and the loop gets to every
readable connection (strongly fair, since scripts run in between). Only `DrainSpec`, for `zombie`, has
peers that read what they are sent, without which a queue may stay full for a
good reason. `Machine`: `vm_execute` goes on to the next instruction, and a script
that sleeps is resumed by the main loop. `Collector`: `rbtC_auto_gc` is called in
every turn of the main loop, so a step of the collector is taken; handlers are not fair.

## Divergences found

1. `save_wait`: `twice_login.c:91` compares with `come_tm`, the time of the
   *login*. After a session longer than 15 seconds a login right after the logout
   does not wait for the save, although the comment in line 92 and the log in 93
   speak of 15 seconds after the player left.
2. `broadcast_batch`: `process.c:29` never stores how far it came, so with more
   than 10 players the first 10 get the message every turn and the rest never.
3. `zombie`: `rbtNet_set_status` returns before its assignment
   (`connection.c:71-75`), so a soft close with unsent data never closes.
4. `request_wrap`: after `PKT_REQ_MAX`, `get_next_param` stores 1 in the id and in
   `last_req_id` and then increments only the id (`remote_call.c:117`), so that
   ids run 2, 1, 2 after the wrap. The third call takes the place of the first in
   the hash, and the answer to the first is given to the callback of the third, against `remote_call.h:46`.

5. `zone_name`: `handle_create_zone` keeps the string that `rbtS_init_io` returned as the
   name of a zone (`handle_server.c:305`). `rbtS_init_io` returns a string that is interned
   already without marking it (`string.c:220`), unlike `rbtS_init_len`. If the cycle under way has
   marked its roots before and nothing else refers to the string, the sweep frees it, although
   `server.c:37` marks the names of zones as roots. What happens when a freed name is marked in the
   next cycle is undefined and not modelled.

Four more are in the models, and the properties name them as their exceptions; each property is violated
when its exception is taken out:

- `handle_server.c:333`: a second `BUDDY_BIND` of a player, or one to an id that is not positive, leaves an entry of
  `G(r)->players` that no abort takes out, although the players in it "all exist in [gs->accounts]"
  (`server.c:60`); when the player is destroyed it leads to freed memory (`stray` in `NoDanglingPlayer`).
- `player.c:168`: an abort moves the cursors of the server of the player's zone only, although it "adjusts
  the global messages" (`player.c:147`); a late `BUDDY_BIND` of another server lists the player there, and
  that server's cursor stays on him (`late` in `CursorListed`).
- `handle_server.c:151`: a second global message before the first is sent takes its slot; nobody hears the first
  any more, its packet is never dropped and `nbroadcast` stays one too high (`slot` in `EveryoneHears`).
- `table.c:521`: `t[] = v` hides values of numbers that are in nodes (`hidden` in `IsMap`, `Counted`, `EachOnce`).

Others were met while reading, some of them listed as hazards: client
packets cost the gate its connection (`rpc.c:173` looks up account 0), server id
0 registers but is skipped by `process`, a group id that is not positive is never
left on re-entry, user counters drift, players that were not bound when their
server was lost are not entered again, a failed report of a logout leaves the
player in Saving until a login more than 15 seconds later, the `ABORT_OK` of an earlier session is taken for
the one of the next after a forced login (`twice_login.c:152`), and a database that is deleted moves those behind it while
`data_pool` keeps their old addresses (`db_mgr.c:86`).

In the library: `die` after a resume never calls back and never releases the context
(`script.c:920`); `checktimeout` does not end when two scripts sleep for 0 ms (`script_misc.c:47`);
`iload_proto` shares one variable between nested prototypes (`script_load.c:195`);
a closure called again through another table while it runs has its `self` replaced; `include_stat`
returns before its work (`parser.c:1722`).

## Proofs

`SessionProofs` proves, for every set of accounts, servers, zones and connections, every finite set
of character ids, positive or not, and every bound (`SessionAssumption`):

- `SessionTypeOK`: `Spec => []TypeOK`
- `SessionNoDangling`: `Spec => []NoDanglingPlayer`
- `SessionHome`: `Spec => []HomeIsZone`

all from `SessionInv`, `Spec => []IInv`. `HomeIsZone` alone is not inductive.
`IInv` adds `ConnIsOwn` (the connection a server has is registered as that
server's, so that two servers have different ones; otherwise an ENTER to one
would count for the other), `FreshConn` (a connection that is not registered
hosts nobody, so that a registration brings no stale players to a server). That a session has a zone, so
that a waiting login knows where to go, is in `TypeOK`. `NoDanglingPlayer` needs only `TypeOK`: an abort takes out the entry of the
player's id, and any other entry that leads to the player is one of `stray`. `HomeIsZone` needs both: what
`handle_create_zone` enters is live and of its zone because no entry dangles while `stray` is empty. There is a lemma for each action, grouped as in `Next`; `RealLoginKeeps` and
`ReportLogoutKeeps` are the two ideas: a login is safe because the account is
hosted nowhere when it happens, and it is hosted nowhere because the logout was
reported on the very connection that entered it, or that connection is gone.

The second half of the module adds `SessionSaveInFlight`, `Spec => []SaveInFlight`. It needs `Waits` besides
`IInv`: a save is owed only of a player in Saving or Twice, so that an `ABORT_OK` either
settles what is owed of the player or finds that nothing is. The rest is `DueStays`: a step
keeps the property when what is owed after it was owed before, and its request or answer is
not taken off its connection. The connection of a request is the one its answer comes back
on, and `IInv` has that no two servers share it.

`ConnectionsProofs` proves, for any finite pool that is as large as the bound on connections
(`ConnectionsAssumption`) and any bounds:

- `ConnectionsTypes`: `Spec => []TypeOK`
- `ConnectionsFree`: `Spec => []FreeSound`
- `ConnectionsEvents`: `Spec => []EventFresh`
- `ConnectionsTold`: `Spec => []ToldOnce`
- `ConnectionsPointers`: `Spec => []PointersLive`
- `ConnectionsUnauthed`: `Spec => []UnauthedSound`

all from `ConnectionsInv`. Five ideas make `IInv`. `Owned`: open connections have ids of their
own that are not closed yet, so closing one reports that one. `GateOnly`: only `gate` has the
gate's role, so losing it leaves no second one behind. `OneEach` and `Turn`: a connection has
one event in a batch, and the one that is processed has none left, so deleting it - which is
all a handler deletes - strands no event. `Reading`: a connection that is readable has data or
the end of its stream, so `read_data` fails only at an end that came. `Room`: if the gate
is sure to be lost (`Doomed`, by what is in its socket or in the batch), there is an id and a
structure for the connection that replaces it, beside those for the connections that wait to be
accepted; this is what `free[1]` rests on. `NetTouched`, `NetClosed` and `DeleteEvents` are
the lemmas to read: a step that only moves data, one that closes a connection, and what it
does to the batch.

`RemoteCallsProofs` proves, for any connections, scripts and number of
preallocated parameters (`RemoteCallsAssumption`):

- `RemoteCallsTypeOK`: `Spec => []TypeOK`
- `RemoteCallsOwnAnswer`: `Spec => []OwnAnswer`
- `RemoteCallsAwaited`: `Spec => []Awaited`

all from `RemoteCallsInv`, and all assuming `MaxCalls < ReqMax`: fewer calls than
ids. `request_wrap` shows why the assumption is needed; with it the proof is that
the code is right until the wrap. Neither property is inductive alone. `IInv`
says that the id of a call is its number (`Numbered`), that the hash and the busy
parameters are each other's inverse (`Indexed`), that free parameters are not
busy and are on the list once (`FreeUnused`, so that a new call takes nobody's
parameter), that a closed connection carries nothing (`ClosedSilent`), and that a
call has one packet on its way and none while its answer is handled (`WireOnce`,
so that `ApplyEnd` frees no parameter that an answer will still ask for).

The second half of the module adds `RemoteCallsAccounted`, `Spec => []Accounted`, under the same
assumption. `Accounts` stands on `IInv` and says who holds whom: a waiting script is held
(`Held`), by one parameter only (`Alone`), a busy parameter holds one that waits except
while its answer is handled (`Holding`), the free and the busy parameters are all there are
(`Sized`), and the script that runs is marked as running (`Runs`) - without the last, a
call could give the same script to a second parameter.

`PlayerListsProofs` proves, for any finite set of players and any servers, groups and
bounds (`PlayerListsAssumption`):

- `ListsTypeOK`: `Spec => []TypeOK`
- `ListsSound`: `Spec => []ListSound`
- `ListsCursor`: `Spec => []CursorListed`
- `ListsCounted`: `Spec => []BusyIsCounted`

all from `ListsInv`. `CursorListed` alone is not inductive: `rbtF_player_abort` moves only
the cursor of the server of the player's zone, which is enough for servers that were not late because
of `OwnListed` - they have listed only players of their own zones - and of `ListSound`: a player is in one place of one list, so
that the cursor moves to one that is listed still. `CountedOnce` is for the type:
`nbroadcast` is at most the number of messages that were taken, so its bound holds.
Unlinking a player is `UnlinkedFrom`: what is left is the list without that one.

From there its second part goes on to the groups, under the same assumption:

- `GroupsAlwaysSound`: `Spec => []GroupsSound`
- `GroupsRefined`: `Spec => GroupsImplemented`, the refinement of `GroupMembership`

both from `GroupsInv`, `Spec => []GInv`. What `GroupsSound` and the refinement say is about what is
reached along the pointers. `Chained` says it without a walk: for every server and group there is a
sequence of players, nobody twice, that the pointers thread (`Threaded`: the head is its first, the pointer of
each is the next one, of the last `NULL`), and its members are live players of
that server and group. `BoundLive` and `DownEmpty` say that only live players bind and that a lost server has no
groups. `Followed` is the bridge to the definition in the model: the recursive function that follows the pointers
meets this sequence and then `NULL`. `ThreadedWithout`, `ThreadedBefore` and `ThreadedElsewhere` are the
three things the code does to a list, and `LeftMoves` is `rbtF_player_leave_group`: it takes a player out of
the one list it is in and leaves the others alone, and does nothing where `gid` is left over from a server that
is lost.

`CollectorProofs` proves, for any tables, strings, zones and number of handlers
(`CollectorAssumption`):

- `CollectorTypes`: `CollectorSpec => []GcTypeOK`
- `CollectorSafe`: `CollectorSpec => []Safe`
- `CollectorExact`: `CollectorSpec => FullExact`

The first two are from `CollectorInv`. `Safe` is not inductive: that nothing reachable is free
now does not say that the next sweep spares it. `IInv` adds what marking with three colours
rests on. While marking (`Marking`), the root and the contexts put away are grey -
queued or scanned - (`Begun`), a reachable object that has the mark of the cycle is grey and the
other way round, except that a stable one may be either (`Coloured`), and what a scanned object
refers to is grey, or marked if it is a string (`Followed`). At the end of the phase the
queue is empty, so the scanned and marked objects are closed under references and hold
the roots: they are all that is reachable, which is `Solid`, what the sweep and the
next `GcBegin` need. `Waiting` says that what is queued survives the sweep, because a
stable object may wait in the queue from one cycle to the next. Each store keeps this because
`setvalue` marks the value it stores, whatever the phase; the mutant in which it does
not mark during a sweep violates `Safe` in the run. `StoreValueKeeps`, `NewKeeps` and
`MarkStepKeeps` are the lemmas to read.

`CollectorExact` is the other direction: a full collection leaves nothing but what can be reached, what
is stable and the names of zones. It needs `FInv`, with `Wanted` for what it is to keep. Every object with a colour is
in one of the two lists or the name of a zone (`Listed`), so that the sweep passes it; what it passed has a mark
that is kept (`Swept`); between two cycles nothing is left to be swept (`Drained`); and the last cycle marks only
what is wanted (`OnlyWanted`). The proof found a mistake in the
statement: the disjunction of `FullExact` was in the scope of a quantifier over zones, so that its last case
counted only when there is a zone. It is bulleted now.

`HashTableProofs` proves, for any finite or infinite sets of string and number keys and any values
(`TableAssumption`), and with every `t[] = v` that `rbtH_setnextnum` admits:

- `TableInv`: `TableSpec => [](TInv /\ VInv)`
- `TableIsMap`: `TableSpec => []IsMap`
- `TableCounted`: `TableSpec => []Counted`
- `TableVisits`: `TableSpec => EachOnce`

`TInv` is `TabOK`, `Shown`, that finitely many keys are hidden, and `IsMap`. `Shown` says that a node with a number of the vector
has a hidden key, so that of all other keys each has one place. `TabOK` says how nodes are linked, with `Chain(node, m)` for the least set of
nodes that has `m` and is closed under `next` - a definition without a walk, so that facts about it need no
induction. A key is on the chain of its main position, and no node has the key of another; a node with a key that
is chained to has one node before it (so that a key can be taken out of the middle), no chain is a ring
(so that the loops end), and all nodes behind `last` have keys (so that the free pointer, which only goes
down, misses none). `AlongFinds` and `BeforeFinds` say that the loops of `getstr`, `getnum` and `newkey` do what
the set says. `LinkedReused`, `LinkedInserted` and `LinkedMoved` are the three places of a new key:
at its main position, in a free node behind it, and in the place of a key that was only a guest there, which moves
to the free node. `PutIs` puts them together. For the resize, `EntriesOnce` says that no key is among the entries twice,
and `EnteredAll` that all of them find room: those that do not go to the new vector are at most the values
counted by `CountTable` less those below the new size, which is less than the number of nodes. So one resize
always leaves room for the key that caused it. A visit is a position among these entries: `VInv`
says that nothing that was visited lies behind the position, and that a key that lasts was visited or
does. `PutKeepsKeys` keeps both, as a store under a key the table has moves nobody; one that may move others
ends the visit.

`PacketsProofs` proves, for any number and size of blocks, any place of the struct and of the key byte in a
block, any sizes that the system takes of a write and any bounds (`PacketAssumption`):

- `PacketsHeld`: `PacketSpec => [](\E own : Core(mem, own, flat, out))`
- `EveryBlockOnce`: `PacketSpec => []BlocksOnce`
- `PacketsAreSequences`: `PacketSpec => []AsSequence`
- `FramesStayWhole`: `PacketSpec => []FramesWhole`

all from `InvAlways`, `PacketSpec => []Inv`. None of the three properties is inductive: a walk along pointers
says nothing of the blocks that a step will put there. `Core` says it without a walk. `own` gives every packet, and the
free list as owner 0, the sequence of its blocks; no block is in two places (`Apart`), all that were made are in one
(`Covers`), and the pointers thread each sequence (`Linked`). A packet has enough blocks for its size, its
cursor is in one of two spots - behind the last cell, or in front of the next in another block (`OnSpot`) - and
cell `i` is byte `i + 1` of the sequence (`PacketOK`). It is held as often as the program holds it and the queue
names it (`RefsOK`), so that none that is queued is freed, and what is left to write of it is in its blocks even if it
became shorter (`QueueOK`). Of division the proofs use no more than `Spots`: each spot
follows the one before and no two are the same. `LongerIs` gives a packet one more block, `FreeListIs` turns
the blocks of a packet round before the free ones, and `WriteCellIs`, `SeekIs`, `EraseIs`, `EncodeIs`, `ParseIs`
and `DropLastIs` are the functions of `mblock.c` and `packet.c`.

For the wire, the frames that were sent are laid end to end: `off[k]` is where the `k`-th ends. What was written is a
beginning of that; the nodes of the queue are the last frames, all of them whole but the first, and the packet
of a node has the bytes of its frame except the number, which is that of whichever sending was written last (`WireOK`,
`FramesOK`). That is why `write_data` sets the number on each turn, and the
mutant that takes another node's number violates `FramesWhole` in the run. `TurnKeeps` and `TurnWired` say that a turn of the
loop keeps all this, `DrainingTurned` and `DrainingWired` that all turns do, `FrameIs` that a head
found at `off[k]` is that of frame `k + 1`, and `FramesAre` that the peer looks nowhere else. Making the
invariant inductive asked for two facts nobody had written down: that a packet is at least a head long
(an `erase` into the head would put the length behind the end), and that every node of
the queue but the first is at the beginning of its packet.

Induction. The theorems of the library that take an operator cannot be used, but the same principle
in the form of sets can: `ListLemmas` proves `NatLeast`, `NatSetInduction` and `IntervalInduction` (a set that has 0 and with
each number the next one has all), and with them that a recursive function which `CHOOSE` defines satisfies
its equation, as in `Followed`, `AlongFinds`, `EnterIs`, `WritingIs` and `TurnsAre`. `RECURSIVE` operators stay out of reach.

Only model-checked: `Amf` and the scripts (`Language`, `Compiler`, `Machine`), which are written with
`RECURSIVE` operators; and all liveness (`EveryoneHears`, the waiting logins of `SecondLoginEnds`, the answers of
`RemoteCalls`), as fairness and ENABLED are outside the prover.

## Not modelled

- User counters, statistics and logs; failures of `epoll_ctl` and `getpeername`; the admin
  connection, which only reads; `handle_client.c`, which is not reached. Group ids are
  positive and an account binds one character in `PlayerLists`: what happens otherwise is told above, and
  for characters in `Session`.
- `time_process_list.c` and `least_recently_used.c` have no caller in the repository, and
  `thread.c` is not built; `db.c` and `zredis.c` wrap client libraries.
- `lexical.c`, `php_serialize.c`, `php_deserialize.c`, `base64.c`, `md5.c`, `rsa.c`, `math.c` and
  most of `script_base_lib.c` compute values and keep no state; `config.c`, `io.c`, `script_load.c`
  read and write files.
- The array of `db_mgr.c` is a choice of the environment in `RemoteCalls`.

## Plan

What is left, most valuable first: the invariants of `Machine`, which need the machine apart from the
compiler; the sleeping scripts of `script_misc.c` with their clock; a module that composes `Session` with the losses of `Connections`; the PHP formats beside `Amf`.
