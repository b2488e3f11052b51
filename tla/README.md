# DirectoryService in TLA+

Models of the DirectoryService daemon (`DirectoryService`), of the libraries its clients
use and of its plug-in support, checked with TLC and, for most parts of the daemon,
proved with TLAPS.  Paths below are relative to the repository root (`src/` in the map of PROJECT.json).

## Inventory

The daemon answers directory requests of local clients (mach messages), of remote
clients (TCP, older systems) and of itself.  A request carries references: numbers
that stand for an open session (directory), an open node, an open record or an
attribute list.  Plug-ins do the work on nodes; the daemon keeps the tables.

| Part | State | Operations | Hard behaviour | What makes it correct |
|---|---|---|---|---|
| Reference table (`Server/CRefTable`) | three maps, reference-counted entries and clients, a circular index, two dispatch queues | CreateReference, VerifyReference, RemoveReference, CleanRefsForMachRefs, GetRefEntry | several blocks per operation, queued removals, destructors that queue more, an index that wraps | maps agree, counts exact, no dangling pointer, nothing left behind |
| Local-only sessions (`CHandlers`, `od_passthru`, `CRefTable`) | global path, session count, lock, exit timer | open local service, close, timer | check-then-act by several clients, count shared with other openers | all sessions serve one path; the count is the number of open sessions |
| Plug-in list (`CPlugInList`, `CServerPlugin`) | table of plug-ins, list of loads attempted, state bits | LoadPlugin on demand, SetState | two callers of one lazy plug-in, failed loads, stale states told | one instance of each plug-in; plug-in, opendirectoryd and configuration agree |
| Node list (`CNodeList`) | binary trees of nodes, the predefined nodes, counts | add, delete, find | deletion of inner nodes, check-then-register, nodes announced late | the trees are sets of what was registered and not deleted |
| Membership cache (`Mbrd_Cache`, `Mbrd_HashTable`, `Mbrd_UserGroup`) | ten hashes, a list, counted items | find, add, remove, sweep, reset | one item in several hashes, eviction while in use | an item is freed when nothing refers to it, a key leads to one item |
| Membership resolver (`Mbrd_MembershipResolver`) | items with two queues, flags and hashes of groups | resolve ids, check membership | refreshes that cross, groups in circles | answers are what the last search could find; every request is answered |
| Request handlers (`CHandlers`, `ServerControl`, `CSrvrMessaging`) | message under construction | unpack, verify, call plug-in, pack, free | failure after a reference was made, parts agreed on by convention | a failed call leaves no reference; both sides mean the same parts |
| Client library (`APIFramework`) | references, message blocks, connections and their counts | dsOpen..., dsClose..., the utilities on lists and buffers | lost daemons, late answers, slots and numbers used again | a request goes to the daemon its reference is from, and its own answer is read |
| Open Directory framework (`CFOpenDirectory`) | objects with references | the OD... calls | a daemon that is restarted within a call | what a call reports is what became of its requests |
| Base plug-in, virtual nodes, continue data (`PlugIns/Common`, `CContinue`) | contexts by reference, searches by number | open, search, close | closing late, while in use or while switched off | a context goes with its reference and not before |
| Local authentication helper (`PlugIns/Local`) | record, hash file, state file of a user | log in, set and change passwords, policy | steps that fail half-way, requests that cross, offline caches | no account is disabled for nothing, some verifier always stays |
| Pass-through (`od_passthru`) | sessions, nodes and queries of opendirectoryd | create, use, close | processes that exit, closes that cross | counts exact, one local path |
| Remote endpoint (`Proxy`) | socket, buffer | send, receive | time-outs, lost connections | with the client library's connections |
| Internal dispatch, threads and locks, SQLite helper, workstation service, start-up, auditing, cryptography, strings and files | | | | not modelled, see the end |

How they interact: `ServerControl` receives a message on the queue of the client's
port and runs `CHandlers`, which asks the reference table whether the number is the
client's, finds the plug-in, calls it and stores new references.  The table calls
back (`RefDeallocProc`) into the plug-in when a reference dies.  Plug-ins register
nodes in the node list and call back into the daemon through internal dispatch.
Clients use the library, or the framework on top of it; `opendirectoryd`, which took the
daemon's place, reaches its plug-ins through the pass-through.

## Modules

| Module | Models | Runs | Proofs |
|---|---|---|---|
| `RefTable` | `Server/CRefTable.cpp`, the counts of `PlugIns/Common/CObject.h` | `refs_clients`, `refs_wrap`, `refs_order` | `RefTable_proofs` |
| `LocalSessions` | the local-only part of `Server/CHandlers.cpp`, `CRefTable.cpp`, `od_passthru.cpp`, `ServerControl.cpp` | `client_parts`, `local_targets` | `LocalSessions_proofs` |
| `ClientCalls` | what each call of `APIFramework/DirServices.cpp` sends and reads | `client_parts` | - |
| `ServerHandlers` | what each handler of `Server/CHandlers.cpp` reads, creates, answers, frees | `client_parts` | - |
| `Requests` | a call and its handler, through `CMessaging`, `CSrvrMessaging`, `ServerControl` | `client_parts` | - |
| `ODCalls` | the calls of `Server/CFOpenDirectory/CFOpenDirectory.c`, as requests | `client_parts` | - |
| `ODFramework` | the framework's objects over a daemon that is restarted | `client_parts` | - |
| `DataLists` | the list utilities of `APIFramework/DirServicesUtils.cpp` | `client_parts` | - |
| `PluginTable` | `Server/CPlugInList.cpp`, `CPlugInConfig` states | `daemon_parts` | `PluginsAndNodes_proofs` |
| `NodeSet` | abstract: what the node list promises | `daemon_parts` | `PluginsAndNodes_proofs` |
| `NodeTree` | `Server/CNodeList.cpp`, the registration of `CServerPlugin.cpp`; implements `NodeSet` | `daemon_parts` | `PluginsAndNodes_proofs` |
| `RecordBuffers` | buffers of records: `CBuff`, `BaseDirectoryPlugin`, `DSSwapUtils`, `DirServicesPriv`, `CDSRefTable`, the parser of `CFOpenDirectory` | `daemon_parts` | - |
| `Connections` | connections and `CDSRefMap` of the library, `CClientEndPoint`, `Proxy/DSTCPEndpoint` | `daemon_parts` | `Connections_proofs` |
| `Passthru` | the objects of `Server/od_passthru.cpp` | `plugin_parts`, `pass_deletes` | `Passthru_proofs` |
| `LocalAuth` | `PlugIns/Local/CDSLocalAuthHelper.cpp` and the files it keeps | `plugin_parts` | `LocalAuth_proofs` |
| `BasePlugin` | `PlugIns/Common/BaseDirectoryPlugin.cpp`, virtual nodes, `CContinue.cpp` | `plugin_parts`, `base_zero` | `BasePlugin_proofs` |
| `MbrdCache` | `Server/Mbrd_Cache.cpp`, `Mbrd_HashTable.c`, the lookups of `Mbrd_MembershipResolver.cpp` | `cache_users`, `cache_kerberos`, `cache_offline` | `MbrdCache_proofs` |
| `Memberships` | the memberships of `Mbrd_MembershipResolver.cpp`, `Mbrd_UserGroup.cpp` | `cache_users` | - |

`MC...` modules hold the values of the constants.  `MCDaemon`, `MCClients`, `MCPlugins` and
`MCMemberships` put several modules into one run: a behaviour chooses a part and is one of
that part alone, and the others stay as they start.  The modules of these parts that
are proved about are extended, so that the run checks the property that the theorem
states; the others are instantiated.  These parts share no state in the
code either, or share it only through what is modelled in another module, so running them
together would add nothing but states.  Where parts do interact they are one module:
client and handler in `Requests`, the daemon's table and the plug-in's in `BasePlugin`,
framework and daemon in `ODFramework`, library, endpoint and remote daemon in
`Connections`, registration and trees in `NodeTree`.

In every module an operator with a suffix (`Kept_NotCounted`) is a faulty variant of the
operator that follows it; it is used only to confirm that a property fails when the code
has that fault.  Runs that expect a violation state what a comment of the code promises
and the code does not do.  A property that the code breaks in a case nobody has promised
anything about names the case and leaves it out; each such case is in this file.

## The reference table

`RefTable.tla` models `CRefTable.cpp`.  A reference number is `type * IndexSpace +
index` as in the code (type in the upper bits, index in the lower).  An entry or a
client object is named by the CreateReference call that creates it, so that a recycled
number is told from the object that had it before.

**State.**  `fNextIndex`, `fRefToEntry`, `fRefToClientEntry` and `fPortToClientEntry`
are the members of CRefTable; `fRefNum`, `fParentID`, `retain`, `fSubRefs` those of
sRefEntry, `portInfo`, `cRetain`, `cSubRefs` those of sClientEntry.  `status` and
`cStatus` follow an object from its constructor through its destructor to the call of
the plug-in.  `queue` holds the blocks submitted to `fQueue` in order, `cleanup` those
of `fCleanupQueue`, and `stack` the destructors that a thread, or the block at the head
of the queue, is in the middle of.

**Steps.**  A block of `fQueue` is one step, because a barrier block runs alone and a
read block sees one state.  What a thread does between two blocks is a step of its own,
which is where other threads come in between: `CreateReference` verifies the parent
(`RunVerify`), looks it up again (`RunLookup`) or finds its client (`RunFindClient`),
checks the room (`CheckRoom`) and inserts (`RunInsert`); `RemoveReference` verifies and
submits a removal (`SubmitRemove`) that runs later (`RunRemove`).  A destructor submits
the removal of each of its references (`ReleaseSubRef`, `ClearChildRef`) and hands the
number to the cleanup queue (`FinishEntry`, `RunDealloc`).  `RunClean` takes a client
out of the port map.

| Run | Instance | Shows |
|---|---|---|
| `refs_clients` | one client thread, one of the daemon's own; 3 creations, 5 requests, room for 4; creation, use, close, drop of a port, clean; fair queues | `NoDangling`, `RetainCountsExact`, `CallersOwnClient`, `NothingLeftBehind`, `DescendantsFollow` |
| `refs_wrap` | two daemon threads on the internal port, 3 indices, room for 2 and 4 creations, so that `fNextIndex` wraps over numbers in use and the threads meet the limit together | `MapsAgree`, `ReusedAfterALoop`, `InsertionsEnd` |
| `refs_order` | two daemon threads | `OrderedCleanup` fails: the entry of a node may reach the cleanup queue before those of its records |

*Bounds.*  Three creations make a whole chain (directory, node, record), which
`refs_clients` has room for, so that what follows a directory is a node and the node's
record; the four of `refs_wrap` recycle a number.  Five requests allow the chain to be made and two others to cross
with it or with its removal; the sixth of `refs_wrap` is the second close of a number
that the first close has set free and another call has been given.  A third thread would add no new kind of interleaving: the
table treats all but the caller's client alike, and a pair of blocks is separated by at
most the other thread's.

*Recycled numbers.*  Everything in the table goes by number, and a thread or a queued
removal may hold a number whose entry is gone.  If the index comes round in the
meantime, the number is another's: a second removal takes the new entry out of the
table, and a child is put under the new entry and into the list of that entry's client.
The model allows both (in `refs_wrap` a removal meets another entry than the one it was
submitted for; the other takes five creations, more than the runs make), so neither is
claimed to be impossible.  What the code does promise is
in CRefTable.h, lines 55 to 57: indexes are not recycled before the loop is closed.
`ReusedAfterALoop` is that promise about the numbers still held, with `tried` and `born`
counting the indices tried; `CallersOwnClient` and `Opened` speak of the entry that was
verified and not of its number.  `refs_clients` has more indices than creations; the
recycling of numbers is the business of `refs_wrap`, with `MapsAgree` unaffected by it.  A third effect is a leak: an insertion under a parent that
has left the table since it was verified may find in the parent's list a child that left
the table too and had the same number, and overwrites that pointer without releasing it
(`CRefTable.cpp:307`).  So `RetainCountsExact` claims the counts of entries
while no index was used a second time (`NoIndexRecycled`), and those of clients always;
and `NothingLeftBehind` is claimed for that time too, since the child that was
overwritten stays alive for good (with one index, two daemon threads and four creations
TLC finds it left over).

*The size check.*  `CreateReference` compares the size of the table with the limit
outside the queue, then inserts in a barrier block that loops until it finds a free
index.  Threads that pass the check together overshoot the limit, each by one.  With
`RoomLimit` 2 of 3 indices one overshooting thread still finds a place; with as many
indices as the limit allows entries, plus threads waiting, the insertion would never
end and hold the queue for ever.  The code allows 0xfffe entries in 0x10000 indices, so
it takes four threads at the limit, and entries of one type only.  `InsertionsEnd` says that a
block about to insert finds an index; its mutant (no check) shows that the model sees this.
No other block loops, and both runs check deadlock: in a state in which a request is in
progress something can always go on.

*Fairness.*  libdispatch runs every block that is submitted, and a thread that has
begun a request goes on; so blocks, destructors, the cleanup queue and the threads
within a request are weakly fair.  New requests are not: no client is obliged to send
one.

**Proved** (`RefTable_proofs.tla`, for any threads, ports, sizes and bounds that meet
the assumptions of the module): `TypeCorrect`, `Spec => []TypeOK`, and `MapsCorrect`,
`Spec => []MapsAgree`.  `MapsAgree` is what `RunRemove` relies on when it drops an entry
from three maps without asking whether it is there.  It is not inductive as it stands:
an insertion must know that the object it puts in is not in the maps yet, and that it
was given to a client.  The inductive invariant `MapsInv` adds `Shape` (the type
invariant without what does not matter here), `NewEntries` (an object that no call has
made is nowhere) and `ForAClient` (a thread about to insert has a client).  The proof
has a step for each action, and under it one for each group of variables it changes.

`ReuseCorrect`, `Spec => []ReusedAfterALoop`, adds three
parts to `MapsInv`: `Counted`, that the number of an entry is the index that was tried
last when it was given; `Noted`, that whoever holds an entry (a thread that verified it,
a block in the queue, a list of sub-references) holds it under the number it was given;
and `Spaced`, that the entry in the table is a loop younger than whatever had its number
before.  The step that matters is the insertion, where it comes to the arithmetic of
remainders: two numbers of indices tried that leave the same remainder and differ, differ
by a loop at least.

The counts (second part of `RefTable_proofs.tla`, for finite sets of threads and ports, since the
pointers are to be counted): `NoDanglingCorrect`, `Spec => []NoDangling`;
`CountsCorrect`, `Spec => []RetainCountsExact`; and `OwnClientCorrect`,
`Spec => []CallersOwnClient`.  `Pointers(e)` is a sum of five cardinalities: the
table, the clients' lists, the parents' lists, and what the threads have in hand or as a
parent.
Its lemmas say what a change in one place does to one sum, and each step of the proof
adds up: the pointers made and cleared are those retained and released.  `HoldInv` is
`MapsInv` with the parts of `ReuseCorrect` and

- `EntryCounts`, `ClientCounts`: no count is too low and an object is live while it is
  counted.  "Too low" is the inductive form for entries; `CountInv` adds equality while
  no index is recycled.
- `Made`, `Dead`: what is not made has no number, no children and no pointers, and what
  the destructors and the cleanup queue work on is not live, so that nothing is
  destroyed twice.
- `Locals`: at each point of its request a thread has exactly the pointers the code has
  in variables there.
- `ParentsAgree`: a parent in the table lists only children that are in the table under
  it, without which a destructor's removal would take somebody else's pointer.

`OwnInv` adds `PortsOwn`, a client in the port map is that port's, and `OwnOf`, which
follows one `CreateReference` through its three blocks: as long as the number names the
entry that was verified, its client is the caller's, because a step gives a number
another client only with another entry (`MapsKept`) and a client in use keeps its port.

`NothingIsLeft`, `Spec => []NothingLeftBehind`, is about the states where nothing is in
progress, and its invariant is an account of everything that is still due.  `TidyInv` is
`OwnInv` with

- `OneBlockEach`, `Asks`: a thread has at most one block in the queue, and a child has a
  type that goes under its parent's.
- `Listed`, `Hung`: a number in the table that is no longer in its client's list, or an
  entry no longer in the list of its parent, has a removal waiting in the queue
  (`Goes`).  `Hung` speaks of the parent's number, not of the parent in the table: the
  parent that lists a child may have left the table before.
- `Ending`: an entry that is dying is in a frame of some agent, whose loop empties its
  list before it is freed.
- `Layered`: a list holds only numbers of types that go under the owner's.  Directory,
  node and leaf are three layers, so an entry that is alive out of the table, which can
  only be in the list of another such entry, would need a fourth (`NoOrphan`).
- `OneInternal`, `Inserting`, `Stale` (the last two while no index is recycled): the
  references of a client that lost its port are being cleared by the thread that cleans
  the port, or have a removal in the queue before the next block of that port.  So a
  thread that looks its parent up again never gets a client that its port has lost
  (`LookedUp`), and nothing is put into the list of a client that was cleaned.

At rest the queue and the stacks are empty and no thread holds anything: what remains
are the table and the lists, and they agree.

**Only model-checked**: liveness.

**Not modelled**: `CleanRefsForSocket` and `CleanRefsForPlugin`, which nothing calls;
the plug-in pointer of an entry, which has no influence on the table; listings for the
log.  A `SetNodePluginPtr` for a lazily loaded plug-in belongs to the plug-in list.

## Local-only sessions

The local-only daemon serves one database, at the path its first client asked for, and
stops when the last session closes.  Handler threads choose the path without a lock
(`ReadPath`, `ReadCount`, `FreePath`, `SetPath`, `Compare`, `Stat`, one step for each
access to a global), create the reference, and count up under `gLocalSessionLock`
(`Lock`, `Increment`).  The table's queue counts down without it (`RunRemoval`) and sets
a ten-second timer at zero; the exit of a client sets one, too (`ProcessGone`).  The
timer's handler tries the lock (`TimerFires`).  The paths are absolute: `"Default"`
never reaches the daemon, since `dsOpenDirServiceLocal` replaces it
(`APIFramework/DirServices.cpp:491-507`).

- `client_parts`, part *sessions* (two ports, a path that does not exist, three opens, one
  reference of the daemon's own, one exit): the count is exact, the daemon never stops under a
  client, and an unused daemon stops.  It is exact *less the daemon's own references*:
  those are opened with `kOpenDirService`, which does not count up, and closed by the
  same `RemoveReference`, which counts down.  After the first of them the count is
  short, so the handler can see zero while a session is open and accept a new path.
  `NeverStopsUnderAClient` and `UnusedDaemonExits` therefore hold only until then, and
  say so.
- `local_targets`: two first callers both find no path and both set theirs; the client
  library's comment says that the first call wins.

`CountSpace` is 8 instead of 2^32: with at most three sessions and one reference short
the count wraps below zero, as in the code, and never over the top.  *Fairness*: queued
removals, timers and handlers run; clients may stop at any time.

**Proved** (`LocalSessions_proofs.tla`, for any handlers, paths, widths and bounds):
`CountCorrect`, `Spec => []CountIsExact`, which is inductive together with the type
invariant (`HasPath` added: a handler on its way has its path), once it is shown that
counting a counter that wraps is counting and then wrapping; and `ExitCorrect`,
`Spec => []NeverStopsUnderAClient`, if fewer sessions are asked for than the counter can
hold.  It needs two more parts: `LockHeld`, that the lock is held by the one handler that
is about to count, or for good by the exit, so that nothing is counted after the decision;
and `AskedFor`, that what is open, being removed or on its way was asked for, so that a
count of zero means no session and not that the counter has gone round.

## Pass-through objects

`od_passthru.cpp` keeps sessions, nodes and queries for `opendirectoryd` under uuids in
a tree with a serial queue.  A synchronous block is one step that must wait for the
deletions submitted before it; local-only sessions go through a second queue, which is
held over the two steps of a close (`CloseRemoves`, `CloseCounts`).  `retain` is
CoreFoundation's count.

- `plugin_parts`, part *passthru* (two handlers, two processes, two paths, both modes,
  four objects, five requests, one death): no object is freed while used or outlives its
  users, with one exception that the code has and `RetainCountsExact` names
  (`Overtaken`): `_QueryCreateWithNode_async` gives the only reference of a new query to
  the tree (line 1017), goes on using the query and retains it on line 1033
  (`AnswerQuery`, `StartQuery`), and a deletion in between frees it.  No comment promises
  otherwise.  What the freed memory holds is undefined; the model goes on with the build
  in which it still holds the query, `misused` records that a freed query was used, and
  nothing is claimed from there on.  The count
  of local-only sessions is exact, so the deletion that the last close submits takes
  nobody's session; usable sessions are for one path.  Four objects make session, node
  and query, and a second session that crosses with their end.
- `pass_deletes`: `_delete_refs_for_pid` ignores the pid.

**Proved** (`Passthru_proofs.tla`, for any finite set of handlers, any objects, paths
and processes): `OnePathCorrect`, `Spec => []OneLocalPath`; `RetainCorrect`,
`Spec => []RetainCountsExact`; `TypeCorrect`; and `CountCorrect`,
`Spec => []CountIsSessions`.

- One path: the code accepts a new path when the count is zero, so what is needed is
  that the count is never less than the sessions that have a path (`Counted`): those in
  the tree, those about to enter it, and one for each close between its two steps.  It
  may be more once a process has died.  `Makers` says that an object on its way into
  the tree is its maker's alone, and `Pathed` which objects have a path.
- Counts: the tree, the maker until it has added its object, each request and the
  running query hold one reference each.  `Holders` says who can hold one at each point, so that every release is of a
  reference that is held; `TypeCorrect` follows, with no count below zero.  The
  maker of a query holds nothing between adding and starting it: while the query is in
  the tree the tree's reference serves, and out of the tree it is `Overtaken`.
- Sessions: while no process has died and no query is made the count is exact, and the
  deletion that a last close submits finds no session (`NothingToDelete`): none is in
  the tree when it is submitted, and none is added before it runs, because an addition
  waits for the deletions submitted before it.

Not modelled: authentication contexts (the code passes an object where
`_remove_identifier` expects its uuid, so they stay until everything is deleted), `_QuerySynchronize_async`, which runs a
query a second time, and the calls that read an object and answer.  `od_passthru_localonly_exit` is the timer of
`LocalSessions`.  A first local session that fails after its path was accepted leaves
the path behind, and other paths are refused until a session for it comes and goes; no
comment promises otherwise, so the model shows it without a property.

## The membership cache

An entry of `MbrdCache` is in one hash for each kind of key it has and in a doubly
linked list, newest first.  It is retained once for each.  `cache` is one record of the
hashes, the list and the entries; the operators on it are those of the code and are
composed as in the code (`AddToHashes`, `AddEntry`, `RemoveEntry`, `Merge`,
`UpdateExistingRecord`, `AddOrUpdate`), and a step applies one public routine, which
holds `fCacheLock` throughout.

A client's lookup is a block of the serial `gLookupQueue`: it hits an entry or searches
the directory (`Hit`, `Miss`, `Find`), then discards a negative answer or, for the
kernel, gives it a temporary ID (`GiveAnswer`).  The first hit by a new kind of key
starts a second search on the entry's own queue (`SearchAgain`), which runs beside
everything else.  `Sweep`, `NodeChangeOccurred` and `Reset` are blocks of
`gLookupQueue`; nodes go offline and come back at any time (`SetNodeAvailability`).
A search may find any matching record or none, for the directory may change.

- `cache_users`, part *cache* (a user in two nodes under one name and one ID, and the same user with
  a changed ID or none; lookups by ID, name and GUID, and by GUID for the kernel; three entries,
  three lookups): until an entry has strayed (below) what is hashed is listed, the list stays whole, counts are exact, each key leads to one entry
  which still has it, and an entry found by a key is not shadowed by one found
  otherwise.  Three entries suffice for one that is replaced, the one that replaces it
  and one in conflict with both, and three lookups to find, to hit and search again, and
  to hit what that search left.  One client is enough, since `gLookupQueue` lets one
  lookup run at a time and the second searches hold entries as other clients would.
- `cache_kerberos`: removal does not know the Kerberos hash, so a swept entry is still
  found.
- `cache_offline`: the entry of an offline node is replaced by a negative one, because
  types differ (a search for users covers computers) and that is tested first.

**What is hashed but not listed.**  There are two ways an entry gets into a
hash and not into the list, and nothing in the code checks for it.  One is the Kerberos hash, as
`cache_kerberos` shows.  The other is in `cache_users`: a kernel's lookup hits a negative entry, a second search
replaces it, and the lookup then gives it an ID and puts it back into the hashes without the list
(`Mbrd_MembershipResolver.cpp:1562`, `RefreshHashes` of `Mbrd_Cache.cpp:607`).  Such an entry breaks the list once it is removed: its stale
links become the head or the tail, and it is released for a list it is not in.  The model
has no guard against that and goes on as the code does, with an entry freed too early as
an empty one, which is one of the many things freed memory may be.  There nothing can be
promised, and the properties say so: `strayed` remembers that `RefreshHashes` was applied
to an entry that was not listed, and `HashedIsListedBefore`, `ListIsWhole`, `RetainCountsExact`, `Unambiguous` and
`AuthorityStays` speak of what happens before.  Without that condition TLC finds
the list broken after such a step, with four lookups instead of the run's three.  Records with Kerberos principals
are left to `cache_kerberos`.

**Proved** (`MbrdCache_proofs.tla`, for any directory and lookups without Kerberos
principals (`NoPrincipals`), any number of entries and any finite set of clients):
`TheListIsWhole`, `Spec => []ListIsWhole`; `ReferencesAreExact`,
`Spec => []RetainCountsExact`; `KeysAreUnambiguous`, `Spec => []Unambiguous`;
`AuthorityIsKept`, `Spec => AuthorityStays`; and `TheHashedAreListed`,
`Spec => []HashedIsListedBefore`: there is no third way.
The hypothesis is needed, as `cache_kerberos` shows: an entry that is changed or freed
stays in the one hash that removal does not know, under a key it no longer has.  So is the
condition: without it, which is `HashedIsListed`, TLC finds the second way in `cache_users`.

The invariant `IInv`, kept until an entry has strayed, has three parts.  `ControlOK` is the
types and who has what.  `Whole` says that there are two sequences without
repetition or common entry, the list and what a reset has yet to release, whose links
forwards and backwards are those of the cache (`Linked`), and that an entry's count is
its hashes, one if it is in either sequence, and what `Ext` counts: the clients that have
it and the searches on its queue.  `Sound` says that the hashes are keyed, below, and hold
only what is in the list, which is needed where an entry that was found in a hash is
removed from the list: an added entry enters the list if its count says that it has
entered a hash, so that a count that is not exact would do harm here, too.  `ListIsWhole` alone is not inductive: it does not say
that entries outside the list have no link into it, which adding one relies on.  The
sequences are existential, so each operation shows which ones it leaves: `AddToHeadOfList`
one with the entry in front, `RemoveFromList` one without it, a reset an empty list and
the old list as its chain.  Each operation has a lemma (`...KeepsWhole`) over any cache
and any `ext`, so that `AddOrUpdate`, which composes several of them, is proved by citing
them in the code's order, with one more or one less in `ext` for each `Retain` and
`Release`; the last `Release` of an entry is in neither sequence and no hash, and frees
it.  `Keyed` is `Unambiguous` for any cache, with a lemma for each way keys change: an
entry is taken out of all hashes under its old keys before the merge or the temporary ID
gives it others.  `Loyal`, between two caches, is what `AuthorityStays` says of a step,
and has a lemma for each way hashes change: where an entry is pushed out of a hash,
`Replaces` has seen that the newcomer was found by that key or that the old entry is
negative; one that is taken out for a merge still belongs where it was, and since keys are
unambiguous nothing keeps it from coming back.  Sweeps walk the list while they remove from it: the walk is done by
least counter-example over its steps.

Not modelled: clocks (any available entry may be outdated at any time, which includes
what clocks would do); X509 names (like Kerberos names, and a negative answer has no
name to hash); several Kerberos names of one user; reserved and built-in groups; SIDs
composed of a domain and a RID; the memberships of an item, which the next section has,
and the keys a refresh of them writes into an item outside the lock
(`Mbrd_MembershipResolver.cpp:1861`).  `fNumItems`
is only printed.

### Memberships

`Memberships` has the items of one user or computer, of which the cache keeps the last,
and what `Mbrd_GenerateItemMembership` does with them.  A request (`LookUp` for one group,
for *news*, which only starts a refresh, or for *all*) decides in a block on the item's
queue whether to refresh (`Decide`), puts the refresh on a second queue after that block
(`Issue`) and may wait behind it (`Enqueue`, `Wake`).  The refresh finds the record again
(`FindAgain`): the same item, a new one because the user was renamed or the cache swept,
or a negative one.  A working copy collects the groups (`ResolveUser`, one step for each
search) while blocks of a concurrent queue search the groups those are nested in
(`ResolveGroup`); the user's own hash is what ends a circle.  When all have ended
(`Resolved`) the copy is merged into the item found and then into the item asked for
(`MergeRecord`, `MergeGUIDs`, `MergeGIDs`), and both flags are reset (`Refreshed`).

- `cache_users`, part *memberships* (a computer in one group, two groups nested in each
  other, the group of everybody; two threads, two requests, one change: a link, the user
  gone or back, a sweep; three items): `MembershipsAnswered` says that an item answers
  from what its last search could find, all that was there throughout and nothing that
  never was; that whoever waits for a refresh finds memberships; and that everyone is
  answered.  A user differs from a computer by two more searches of the same kind.  Two
  requests make one that refreshes and one that crosses it, and one change makes the
  second item; the runs use two of the three.
- *Fairness*: queued blocks run and a request under way goes on.

Left out by the property, because the code does otherwise: a hash is empty for a moment
when it is emptied and filled again, and requests that do not wait read it so
(`Mbrd_UserGroup.cpp:220`); and a request that finds `fRefreshActive` set before the
refresh is in the queue does not wait behind it (`Mbrd_MembershipResolver.cpp:1824`,
`early` in the model), and answers "no" from an empty hash.  The model also shows that a
flag "not found", once merged into an item, stays (flags are only added).

Not modelled: the hash by SID, which goes as the two others; the groups' own hashes,
which nothing reads (a circle of groups retains itself for ever); the search for
`netaccounts` and `localaccounts`, which goes like that for the group of everybody;
`UserGroup_ResetMemberships`
and `HashTable_ResetMemberships`, which nothing calls.

## Plug-ins and nodes

`PluginTable` has the table of plug-ins and loading by the first request.  A request by
name, by key or through a node looks the plug-in up (`LookUp`), and if it has no instance
yet takes the lock of the node list (`LockNodeList`), notes the name in the list of
attempts and makes an instance (`Load`), initializes it, several times if need be
(`Initialize`), merges its copy into the table (`Merge`) and tells plug-in and
opendirectoryd the state (`TellPlugin`, `TellDaemon`).  `Configure` and what follows is an
administrator who changes the state.  A section under the table's lock is one step; the
lock of the node list is a variable because it is held across a load.

`NodeTree` has the three binary trees and the predefined nodes.  A step is an operation
under the list's lock, with the code's walk down the tree, and its deletion, which puts
the successor of an inner node in its place.  A registration is three steps (`LookUpNode`,
`AddNode`, `Advertise`), and opendirectoryd comes, asks for all nodes a second later, and
goes (`OddConnects`, `RegisterAll`, `OddExits`).  `NodeSet` is what a reader would take
the list for, a set of names for each kind of node and a count; `IsNodeSet` is the
refinement: each step of the trees is a step of the sets or none, with the nodes of a
tree, found by the code's own search, as the set.

- `daemon_parts`, part *plugins* (one plug-in, two requests, two calls each, two attempts
  to initialize, one change of state): one instance is made and not lost; plug-in,
  opendirectoryd and configuration agree when nothing is under way; every request is
  answered.  `OneInstanceEach` rests on the list of attempts having room for every
  plug-in: with more than `gMaxLazyLoaders` it fails.  `StateAgreed` leaves out a plug-in
  with a request that was overtaken by the one that loaded it.  "if the plugin was loaded,
  set the state" is what a comment says (`CPlugInList.cpp:774`); but the condition after it
  holds for every request that finds an instance in the table, and one that has not put it
  there has the state `kUnknownState`, which opendirectoryd takes for disabled.  When it comes
  last, opendirectoryd is left with an active plug-in that it takes for disabled.
- part *nodes* (five names in the main tree, one of them in all three, one predefined
  node; two plug-ins register all of them or some and delete): `IsNodeSet` and
  `Advertised`, that opendirectoryd knows what is in the list.  Five names make an inner
  node with two children whose successor is not its child.
- *Fairness*: a caller that can take a step of its request takes one.

**Proved** (`PluginsAndNodes_proofs.tla`): `OneInstanceCorrect`, `Spec => []OneInstanceEach`,
for any threads and any finite set of plug-ins no larger than `MaxLazy`.  That it is
created once is `Once` (what has an instance is in the list of attempts, which has room).
That it is not lost (`NotLost`) needs three facts more: `Crossings`, a request and a change of
the configuration that are under way for one plug-in have been noted as crossed;
`StillWanted`, so a request with a copy still wants the plug-in or has been crossed; and
`Progress`, a request that has not loaded has no instance to lose and one that has merged
found one in the table.  `StateAgreedCorrect`, `Spec => []StateAgreed`, is about the
last writer: `Sole`, one request at most brings a plug-in, and until it merges the table
has none; `Telling`, who tells plug-in and opendirectoryd a state tells the configured
one, because whoever changes the configuration meanwhile is noted as crossed; `Settled`,
a plug-in in the table is being told, half told by a change, or agrees.

`PluginsAndNodes_proofs.tla`, for any finite set of names in the order of integers and any
registrars: `Implements`, `NodesSpec => IsNodeSet`, the refinement of `NodeSet` with what a
search finds, and `AdvertisedCorrect`, `NodesSpec => []Advertised`.

- A tree is a root and two functions from names to children, and `IsTree(rt, l, r, D)`
  says that D gives, for each name, what is below it: itself and what is below its
  children, smaller names to the left and greater to the right.  D takes the place of
  induction over the tree.  `Smallest` and `Bottom` give what induction would: of the names
  with a property some has no name with it below.  From these the lemmas get that "below" is an
  order in which what is above one name is a chain (`Transitive`, `Antisymmetric`,
  `Comparable`), that a node hangs from one other (`OneParent`), and that a walk from child
  to child meets its end (`WalkSteps`): the node searched for or where it would
  hang (`SearchEndsWell`), the node above (`ParentFound`), the least node below
  (`LeftmostFound`).
- For each change of the links a new D is given and shown to fit: a name at an empty
  root (`AddedAtRoot`) or below the end of its search (`AddedBelow`), a node with one child at
  most taken out (`TakenOut`), a node with two replaced by the least on its right, next
  to it or deeper (`Replaced`).  `WithoutIsTree` and `AddedTo` are these in terms of the
  model's operators; they also show that no two cases of `Without` meet.
- The invariant is that each kind's root, left and right are a tree (`Trees`) and that
  a registrar on its way has a name and a kind left (`Registering`).  An addition of a
  name that is in the tree by then is a stutter of `NodeSet`, with the count unchanged.
- `Advertised` is inductive with it: a step may add a node only if its registrar tells
  next, and take a name out of opendirectoryd's set only if it leaves the trees.

`NodeTreeAssumption` has one assumption about plug-ins: none registers a directory
node under the name of a predefined one.  The code does not check it; if one did, the
deletion of the one would hide the other from opendirectoryd.

The model also shows: a plug-in that fails all attempts is entered with the configured
state; an instance loaded by key while it is configured inactive is lost; a name that is
deleted between its addition and its announcement stays known to opendirectoryd.

Not modelled: plug-ins that are not lazy (`CLauncher`), loading of bundles, the property
list of the configuration, restriction of record types, listings by pattern, the change
token, waits for predefined nodes.

## Requests

A call of the library clears its message, packs its parts, sends it and reads parts back;
a handler reads parts, verifies references, allocates, has a plug-in do the work, packs
and frees.  The fifty calls and handlers are alike in that and differ in lists, so
`ClientCalls` and `ServerHandlers` give each as a record of lists, and `Requests` is the
control they share: `Send`, `Refuse` (a part is missing or a reference unknown),
`RefuseDisabled`, `ServeServerCall`, `ServePluginCall`, `AnswerUnprocessed` (the plug-in
does not start), `ReleaseOnDirectory`, `Receive`, `ReceiveStandardInfo`.  The message is
one block with ten slots that both sides use.

- `client_parts`, part *requests* (every call, with every choice of the arguments that may
  be left out, references of each kind, and one more): `PartsAgree`, the two sides agree
  on the parts of every message and ten slots suffice; `RequestsSettled`, memory is freed
  and a success was processed; `NoneStranded`, a reference is with the client or gone;
  `ContextKept`, continue data the plug-in keeps are with the client.

The properties leave out, because the code does otherwise: `dsGetRecordList` and searches
without a count, and `dsDoPlugInCustomCall` without a buffer, which the library accepts
and the handler refuses; handlers that give up half-way, which leak what the record they
fill points to; a plug-in that does not start in two minutes, whose request comes back as
a success without an answer; `dsGetDirNodeInfo` with a buffer too small, which leaves its
attribute list reference; a record that a base plug-in does not find, for which it sets
the number in the request to 0 (`BaseDirectoryPlugin.cpp:1557`, `:1793`), so that
`FailedCallRefCleanUp` removes reference 0 and the one made for the call stays until its
node is closed (`NumbersLeft`); authentications with a buffer too small and `dsGetRecordList`
without a count, which forget continue data; `dsReleaseContinueData` on a directory
reference, which releases nothing (`CHandlers.cpp:1507-1512`).

Not modelled: offsets inside the block and its growth, nodes that are not registered yet,
statistics, auditing.

## The Open Directory framework

`CFOpenDirectory.c` keeps sessions, nodes and records as objects with references of the
daemon.  A call that is refused for its reference closes and opens it again, for which it
may have to open the node or the session first, and makes the request again.  `ODCalls`
gives each call as the ways it can go, a way as a sequence of requests; `ODFramework` runs
a way as a stack of steps over a daemon that may be restarted (`Restart`) or refuse
(`Refuse`) at any point.

- `client_parts`, part *framework* (every call, two in a row, one restart or refusal in
  each): `OutcomesAreTrue`, a success was served and a call that met no trouble of its own
  succeeds whatever had become of its references before; `NothingStranded`, between calls
  the daemon has no reference that no object holds; `CallsEnd`, the loops end.  Two calls
  are what it takes for the second to find what the first left.
- *Fairness*: a call goes on.  The daemon gives no trouble for ever: that is the bound.

Left out: `dsDoDirNodeAuth`, `dsDoDirNodeAuthOnRecordType` and `dsCreateRecordAndOpen` are
not made again after the node is open and report success; the rest of a search after its
first request, and `dsVerifyDirRefNum` and `dsGetDirNodeInfo` for a reference the caller
brings, do not open a reference again and fail; the node `ODNodeCopySupportedAttributes` opens when a type is given stays.  One thread only:
the header (`CFOpenDirectory.h:28`) speaks of threads, but the objects' locks
(`CFOpenDirectory.c:222-256`) are compiled out, so that callers have to keep threads apart.

Not modelled: conversion of names, values and errors, run loops and their callbacks.

## Data lists

`DataLists` has the lists calls are made with, as nodes linked both ways, a head and a
count, and `kept`, the sequence a list should be.  Each utility of `DirServicesUtils.cpp`
is one action, with the links it writes in their order and its early returns.

- `client_parts`, part *lists* (two lists, three nodes, two strings, nine paths with and
  without empty components): `ListsAreSequences`, links, head and count agree, reading
  gives what went in, no node is in two lists, and a path comes back from its parts.

Left out: after `dsDataListMergeListAfter` the count of the target is what it was, a merge
after the last node has no effect, and the source still has its head; a list that is
built again loses its nodes, as a comment in the code says ("This could leak").

## Record buffers

`RecordBuffers` has the bytes of a buffer: how the base plug-in, `CBuff` and the node list
pack records and paths, `DSSwap` to the other byte order and back, and the ways to take
it apart: entry by entry with references of the client (`ExtractRecordEntry`,
`ExtractAttributeEntry`, `ExtractNextAttributeEntry` and for values), and all at once
(`_AppendRecordsToList`).  Lengths and offsets are numbers of bytes as in the code, since
that is what can go wrong.

- `daemon_parts`, part *buffers* (three records, one without a name and one with a value
  that has a 0 in it; a buffer for the first alone and one for all; two fills, two tables
  of two references): `BuffersComeBack`, every way of reading gives what was packed, in
  either order, and a search in parts loses nothing between them.

Left out: a reference does not know which fill of the buffer it was made for; a value with
a 0 in it has one number from `ExtractAttributeValue` and another from
`ExtractNextAttributeValue`; a record without a name or a type is skipped by the framework
and an error of `dsGetRecordNameFromEntry`.  The model also shows that a record without an
attribute dictionary lacks a count and cannot be read, and that nothing packs the second
standard layout, which everything reads.  Not modelled: debugging tags, buffers below 12
bytes, lengths beyond two bytes, `FilterAttributes`.

## Connections

`Connections` has the client's connections to daemons on other machines and to the one
for local nodes, with the counts of directory references on each, and `CDSRefMap`, which
maps the client's numbers to the remote ones.  A call finds its connection (`Locate`),
makes its request with the lock of the connection (`OpenDir`, `OpenBelow`, `CloseRef`; or
it fails: `CallFails`, with an answer that is late or an end that is gone) and some then
change a count or remove a lost connection with the lock of the table (`Uncount`,
`CleanUpLost`).  An endpoint reads the answers of a daemon in order: `answers` are those
not read yet.

- `daemon_parts`, part *connections* (two threads, one local and one remote connection,
  nodes, lists and values, three references a daemon makes, numbers up to 3, counts of 3
  bits, six calls): `RightEnd`, a reference leads to the daemon it is from and to
  what that daemon made for it, so that no answer was read for another's, and no call uses
  a connection that is gone; `HeldForSomebody`, what a daemon holds can be given back with
  a reference that is mapped, and a connection to another machine goes with its last
  directory reference.  Six calls open,
  lose, open again and use what was left; two remote slots would add a slot in use, which
  `ConnectTo` passes by.

**Proved** (`Connections_proofs.tla`), for any number of threads, connections and numbers
and any set of kinds: `ReferencesMeanWhatTheyDid`, `ConnectionsSpec => []RightEnd`, and
`NothingIsHeldInVain`, `ConnectionsSpec => []HeldForSomebody`.  Neither is inductive: that a
reply is read by the call it belongs to is a fact about every call and answer before it.
The invariant `IInv` says that the map is a forest (`IsTree`: a reference is below one of
the same connection, of a type its own can be opened from), so that
removing a line with all below it leaves a forest; that a call which uses a reference
still has it, and no other call closes one in its line (`CallsOK`); and for each
connection that was not closed with references mapped (`EndOK`) that a call which opens
or counts has it to itself, that one directory reference at most is mapped on a remote
one, with a count of one, and that an answer left unread or an end that is lost belongs
to a call that is about to clean up.  While no call is (`Sound`), numbers of the other end are
mapped once and mean there what they mean here (`RefsOK`), and what is there
is mapped (`HeldOK`).  Three lemmas carry the steps: `ReadInTime`, a call on a connection with
nothing unread reads its own answer; `MappedIsHeld`, what is made there and mapped; and
`CutTogether`, what goes at the other end with a reference is what goes in the map
with it, and only a value list goes alone.  The exceptions need no care
beyond their name: a lost connection is always spoilt by its cleanup,
since the reference of the call that found it lost is still mapped.

Left out: `spoilt` connections went with references still mapped (a lost connection, or
the local one, whose count is only taken at its creation, so that the first close of two
ends the session of both): their references are taken for the next connection's in the
slot, and no reply has a number that is checked; `leaked` connections have a count nobody
gives back (the map is full, which is reported as success with reference 0; a version
that does not match; an open that fails half-way; a lost connection, whose slot counts on
from there).  A second thread between the end of a call that was given up and its
cleanup may read the late answer.  The application is taken to close no reference another
thread uses.

Not modelled: what a message looks like on the wire, keys and encryption, the second
attempt at the session port, the length each message is sent with (one byte more than it
has, which the other end drops).

## The local authentication helper

`LocalAuth` has one user: the first authentication authority of the record, its password
attribute, the hash file and the state file.  A password is a value; a hash is what it
was made from, kept in one slot for each algorithm.  A request is given to the handler of
the user's authority (`Begin`), for a cached user goes to the network first
(`LocalCachedUserReachable`, `Network`), reads the files (`Read`), logs in, changes a
password or sets a hash or policy (`Login`, `Change`, `SetDigest`, `SetPolicy`) and writes
back what it has of state and hashes (`Finish`, `After`); a crypt user is verified
(`BasicAuth`) and may be migrated in four steps (`MigrateWrite` to `MigrateMark`).  Writes
may fail, and the daemon may stop at any point (`Stop`).  No lock is held over a request, so requests
of two threads cross between reading and writing.

- `plugin_parts`, part *auth* (two threads, a short password and a long one that policy
  lets only an administrator set, two failures allowed, five mixes of methods with two
  requests each): `DisabledForACause`, an account is disabled after as many failures as
  policy allows, by another rule of the policy or when the network said so; `VerifierKept`, whatever fails and wherever
  the daemon stops, there is something to verify a password with.  A mix is a set of
  methods whose steps touch the same file; all pairs of all methods would add pairs that
  touch different ones.  In the mix with logins by password the policy has other
  rules (a date, an administrator's word), which may disable the account at the end of any
  request that has read its files.

**Proved** (`LocalAuth_proofs.tla`, for any threads, passwords and bounds that meet the
assumption of the module, and a policy that allows at least two failures): `CauseCorrect`,
`AuthSpec => []DisabledForACause`, and `VerifierCorrect`, `AuthSpec => []VerifierKept`.  Both
speak of the files; what connects them with requests that read and write at different times is
`JobOK`, about what a request has in memory: its count of failures was reached at some
time, it found the account disabled only after enough of them or by another rule, it tests policy at the
end only, and it changes the authority, which is what makes a login look for the hash
file, when that file has been written.  Since nothing deletes the file, that remains
true however the other threads write.

The model also shows, without a property: failures counted at the same time are lost; an
update from what was read before another change may restore the old password; after a
change of password that the network accepts and the local file does not, the file is
written with the old one (`CDSLocalAuthHelper.cpp:5411`); a password that must be changed
stays so after `SetPasswd` when Kerberos is updated; setting an NT hash wipes the others;
`SetValueDisabledForTag` may enter a tag twice; and `SetPasswd`, which reads the hashes
again but keeps the salt it has read before, refuses the right password when the file was
written in between (the model does not see a file that was written with the same
password).  Not modelled: salts and challenge responses as values, the password server, global policies, deletion of the files, the
delay after failures.

## The base plug-in

`BasePlugin` has the tables a plug-in keeps for references: contexts (`fContextHash`) and
searches under way (`fContextMap` of `CContinue`), each with a lock that is held for one
operation.  A handler finds its context and uses it afterwards without a lock or a count;
the daemon tells of closed references later and from its own queue.  So the daemon's
table, which client is served by which thread, and that queue are part of the module.

- `plugin_parts`, part *base* (two threads, two nodes, one record, four blocks of memory,
  numbers up to 3 with their wrap, four calls, the plug-in switched off once):
  `ContextsFollowReferences` and `KeptWhileNeeded`, nothing a request holds goes away
  under it, and the number a client was given leads to its search for as long as the
  client may come back with it.
- `base_zero` (one thread, one node, numbers below 3) expects the violation of
  `ZeroNeverUsed`.  A comment of `CContinue::AddPointer` says "we never use 0" (line 80),
  and the loop over numbers in use does skip it; but the increment after a number was taken
  (line 87) does not, so the search after the last number is under 0.  Its client is
  told 0, which means that nothing is left, and `RemoveContext(0)` removes nothing.
  `KeptWhileNeeded` says what is true of it all the same: it stays until its node goes and
  no longer.  In the code that takes 2^32 searches in one run of the daemon.

**Proved** (`BasePlugin_proofs.tla`, for any threads, references, memory and width of the
numbers): `ContextsCorrect`, `BaseSpec => []ContextsFollowReferences`, and `KeptCorrect`,
`BaseSpec => []KeptWhileNeeded`.

- `ContextInv` is about the tables: a reference is live or on its way to the plug-in
  and not both; a record is below a live node of its client (`Parents`), so its virtual
  node is there; a context whose reference has none is left over from a time when the
  plug-in was inactive (`Leftovers`); virtual nodes are where their contexts say.
- `SearchInv` is about requests and searches.  `Jobs` says that what a request found is
  still what the table has, although it holds no lock: a client's reference is closed
  only by its own thread, which is busy (`Untouched` gathers what a step of another thread
  leaves alone).  `Holding`, a number that a client has leads to the search it was given for;
  `Accounted`, every search belongs to a request, to a client, or to a node that is
  being closed and still has a context, without which the plug-in would free nothing.
  `Zeroth` says of the search under 0, which nobody has, that its node is open or being
  closed in the same way.
- `NextNumber` is the first free number of a walk that passes over 0, except that 0 is
  taken when the counter is 0 after a wrap.  A reference is never 0
  (`BasePluginAssumption`; CRefTable makes no such number).

Left out: a reference that is closed while the plug-in is inactive keeps its context
(`ignored`); `OpenRecord` does not look at what `AddItem` says, so the next record of that
number gets the old one.  The model also shows that a failed `kCreateRecord` is not
cleaned up, and that a failed `DeleteRecord` leaves a reference without a context.  Not
modelled: the contents of buffers (`RecordBuffers`), the derived classes, none of which is
in the repository.

## Fairness and deadlock

Fairness is stated for what the code's scheduling gives: blocks that are queued run
(libdispatch), timers fire, a thread that has begun a request goes on.  No client is
obliged to send anything.  The bounds on the number of requests make every run end, so
deadlock is not checked (`CHECK_DEADLOCK FALSE`), except for `RefTable`, where only a daemon
at rest may stay as it is; that requests do not wait for each other
is said by `DescendantsFollow`, `Answered`, `CallsEnd`, `MembershipsAnswered` and
`UnusedDaemonExits`.

## Proved and model-checked

Proved for every value of the constants (28 theorems, see each part above): the
reference table's maps, numbers, counts, pointers and owners, and that it leaves nothing
behind; the count and exit of the
local-only daemon; the membership cache's list, counts,
keys and what keeps them; the loading of plug-ins and the states they are told; the node list's
trees as sets and what opendirectoryd is told of them; the
references and counts of the library's connections; the pass-through's objects; the
base plug-in's contexts and searches; the account and the verifiers of the local
authentication helper.  Assumptions are on the constants only, and each is named where
it is used: finite sets of threads, ports and clients where something is
counted, no Kerberos principals in the cache, room in the
list of attempts, references that are not 0, names in an order.

Model-checked on the instances given: everything about requests and the framework
(`PartsAgree`, `RequestsSettled`, `NoneStranded`, `ContextKept`, `OutcomesAreTrue`,
`NothingStranded`), the resolver
(`MembershipsAnswered`), and record buffers and data lists.  Liveness under fairness and
ENABLED are beyond the prover and stay with TLC.  `DataLists`, `RecordBuffers` and
`Memberships` compute with recursion over data (the end of a chain, the parts of a path,
the spread over nested groups), whose result for every input cannot be proved with the
provers there are.  The walks of `NodeTree` are recursive too, but a search tree has an
order and finitely many names: the least counter-example does what induction would.

## Not modelled

- *Internal dispatch* (`CInternalDispatch.cpp`): a stack of nested calls that belongs to
  one thread.  Its check comes before the increment (line 86), so the last call allowed
  writes one past the end; how deep plug-ins call each other is not in the repository.
- *Threads and locks* (`Threads`): thin layers over pthreads; the modules take locks
  and queues as they are used.
- *SQLite helper*: opens, checks and deletes a database through a library; its callers are
  not in the repository.
- *Workstation service*: a Bonjour registration driven by an external run loop.
- *Authentication algorithms*: arithmetic on opaque bytes.  *Auditing*: records for the
  system's audit trail.  *Start and stop of the daemon*: system calls.  *Strings, files,
  log rolling, unpackers*.
- *Remote endpoints below messages*: framing, keys, encryption, byte order.
- Constants and generated headers (`DirServicesConst.h`, `CFOpenDirectoryConstants.h`) are
  a large part of the code and define names only.

## What could follow

1. Proofs: `Requests!RequestsSettled`; `ODFramework!NothingStranded`.
2. Abstract specifications: for the reference table, a forest of references owned by
   ports, where a removal takes the subtree; for the cache, a map from keys to records
   that only a search by the same key changes.
3. The resolver's composition with the cache: `Memberships` merges keys into items that
   `MbrdCache` has in its hashes.
4. The event semaphore and the life of threads; the framing of remote messages.

