# Verification of libusbpp

TLA+ models of libusbpp (`src/`), TLC configurations that check them on small
instances, and TLAPS proofs for any instance of the safety properties, and of the
refinements, of every component.
Paths below are relative to the repository's root; line numbers are those of
the commit the models were written from.

## 1. The system

libusbpp wraps libusb-1.0 in C++ classes. There is one background thread (the
event loop of a `Context`) and no lock anywhere.

| Component | State | Operations | Hard about it | What makes it correct |
|---|---|---|---|---|
| `Device`, `Device::Impl` (`src/device.cpp`, `src/deviceimpl.h`) | libusb device (with a reference), shared handle and its counter on the heap, own set of claimed interfaces, pointer to a shared map of interface counters | construct, copy, move, assign, destroy, `open`, `close`, `claimInterface`, `releaseInterface`, `reset`, transfers | copies share two heap cells under different rules; each is freed by whoever brings a counter to zero | no dangling pointer; handle open exactly while shared; claims released with the last claimant; references balanced |
| `Context`, `Context::Impl` (`src/context.cpp`) as an object | shared counter of the libusb session; per copy: flag and thread of the event loop, functions, known devices | construct, copy, move, assign, destroy | the session is shared, the rest is not; copying leaves the flag uninitialised | session open exactly while used; an event thread has a session and a reason to run |
| `Context`: hotplug | maps of functions, map of devices, `m_hotplugEnabled`, thread, libusb registration | `registerDevice…`, `unregisterDevice…`, `getDevices`; the event thread's loop and handler | two threads, no lock; failures between steps; join | flag, thread, registration and maps agree between calls; stopping terminates; events are reported |
| `HIDDevice`, HID report parser (`src/hiddevice.cpp`, `src/hidreport.cpp`) | position, tree under construction, current node, tables of global and local items, stack of tables | `getHidReport`, `ReportTree(buffer)` | nesting of collections and of PUSH/POP in any order; truncated and unbalanced descriptors | each node carries the tables its position prescribes and hangs where nesting puts it |
| `MSDevice` (`src/msdevice.cpp`), SCSI inquiry (`src/msscsiinquiry*.cpp`) | none of its own between calls: what the target still has to send is the state | `sendCommand`, `sendInquiry` | three transfers per command, each of which can fail, be short or come late | the answer returned is the answer to this command; inquiry data are complete |
| `CommandBlockWrapper`, `CommandStatusWrapper`, `Inquiry`, `InquiryResponse` (`src/mscbw.cpp`, `src/mscsw.cpp`, `src/msscsi*.cpp`) | bytes | constructors, getters | byte order, widths, lengths | getters return what constructors were given; a command carries what the caller asked for; no field ends beyond the response |
| `ByteBuffer` (`src/buffer.cpp`) | pointer and size | construct, copy, move, assign, `append`, `resize`, index | `realloc` to zero bytes, aliasing, failing allocations | one owner per block; buffers behave as independent strings |
| exceptions, `std::hash<Device>`, examples, packaging | none | – | – | not modelled |

Interaction: `HIDDevice` and `MSDevice` are `Device`s and call its transfers;
`Context::getDevices` and the hotplug handler make `Device`s; everything that is
sent or received is in `ByteBuffer`s; the hotplug functions are the client's.

## 2. The modules

| Module | Models | Notes |
|---|---|---|
| `SharedResource` | abstract: a resource opened by its first user, passed on, and closed by its last | implemented by `Device` (handles) and `ContextSession` (sessions) |
| `Device` | `src/device.cpp` 55–327 | one action per member function; transfers, configuration and the like are one action each kind, as they only need the handle |
| `DeviceProofs`, `DeviceSharingProofs` | proofs about `Device`; that it implements `SharedResource` | section 5 |
| `ContextSession` | `src/context.cpp` 120–146, 218–255 and, as single steps, 155–183, 257–303 | |
| `ContextSessionProofs` | proofs about `ContextSession` | section 5 |
| `Hotplug` | `src/context.cpp` 109–113, 148–216, 257–303 | client thread and event thread, cut at every shared access, with libusb's counts of references |
| `HotplugProofs` | proofs about `Hotplug` | section 5 |
| `HidReport` | `src/hidreport.cpp` 60–92, 130–139, 258–327; `src/hiddevice.cpp` 44–53 | the bytes of the descriptor are chosen as they are read |
| `ReportTree` | `src/hidreport.cpp` 98–128, 206–256, 329–347 | extends `HidReport`: what the client does with the tree, and which nodes live |
| `HidReportProofs` | proofs about `HidReport` and `ReportTree` | section 5 |
| `ByteStrings` | abstract: strings of bytes of their own, as `include/buffer.h` describes buffers | implemented by `ByteBuffer` |
| `ByteBuffer` | `src/buffer.cpp` | one action per member function, with the allocator |
| `ByteBufferProofs` | proofs about `ByteBuffer` | section 5 |
| `Wrappers` | `src/mscbw.cpp`, `src/mscsw.cpp`, `src/msscsiinquiry.cpp`, `src/msscsiinquiryresponse.cpp` | operators on bytes, no state |
| `WrappersProofs` | proofs about `Wrappers` | section 5 |
| `MassStorage` | `src/msdevice.cpp` 35–96, 143–177; `src/msscsiinquiryresponse.cpp` 68–70; `src/device.cpp` 264–274, 303–314 | extends `Wrappers`; one action per transfer; the target is external |
| `MassStorageProofs` | proofs about `MassStorage` | section 5 |
| `MC…` | model values, symmetry, input sets | one per module that needs them |

### Device

`handle[o]` stands for `m_handle` and `m_handleRefCount` together (they are set
and reset together), `refcount` for the counter cells, `ifmap[o]` and `count` for
`m_interfaceRefCount` and the maps it points to (an entry of value 0 is an absent
entry, a map without entries is a freed one), `mine[o]` for
`m_interfaceMyClaimed`. `opened`, `held` and `devrefs` are libusb's view.
Addresses that are free can be allocated again, so that a stale pointer may meet
a stranger's cell. `Undefined` is the step of an operation that follows a pointer
to freed memory; after it nothing is promised.

The comments of `device.h` allow the client more than the code can take. The
constant `Habits` names what the client does beyond the careful one: copying a
Device that has claims, calling `close()` on one of several copies, claiming
twice, claiming what another copy has claimed, resetting while another copy has a
claim. A `Reset` that goes through is one that passed the assertion on line 197, which
looks at the claims of one object; those of its copies, on the same handle, are only in
`ResetOnlyUnclaimed`, which the code does not keep (section 4). A claim that libusb refuses goes
unnoticed (line 243): the object then has a claim in `mine` that is not in `held`.

### ContextSession and Hotplug

A `Context` is looked at twice. `ContextSession` has many of them and their
lives, with calls as single steps; `Hotplug` has one, with two threads whose
steps interleave. In `ContextSession`, `funcs[o]` stands for the two maps of functions, as far
as it decides when the loop stops: without functions, with functions that the client has
handles for, or with one that a failed registration left behind (`RegisterFails`:
context.cpp:161–170, after which the flag is cleared, or line 172, after which it is not) and
that nobody can take out again. `Race` holds in a state in which both threads are about to use the same
container and one of them to change it; such states and broken ones have no
successors. The event loop passes a null context to libusb (line 150), which is
taken to fall back to the only context there is. An ordinary `bool` is read
across threads (`m_hotplugEnabled`); each access is a step of its own, as the
call into libusb between two reads makes the compiler emit.

`refs[d]` is libusb's count of references to a device, and `Owners(d)` counts who
relies on it: libusb from the arrival until the removal has been handled, `m_devices`,
the client's Devices (`kept`; the client keeps one list of `getDevices` at a time), and
the Device on the handler's stack. The handler makes a Device of the pointer it gets in two
cases, for an arrival that is in `m_devices` already and for a removal that is not
(context.cpp:190, 203); each time that Device drops a reference nobody took.
`ReferencesBalance` says that these two steps are the only ones that leave a
reference missing. Where the missing one is the last, a device is freed under somebody
(`Dangling`); the model stops there.

### HidReport

Items are numbered as they are read, and a table maps a tag to the number of the
item it holds; so "which item" is compared, never a payload. The reference side
of the properties (`InEffect`, `Enclosing`, `LastByTag`) is stated on the whole
list of items, without a stack.

In `ReportTree` the client goes on when the parser has returned: it moves trees, walks
by `getParent` and `getChildren`, and copies and moves nodes, over nodes of the tree as well.
An object of class ReportNode is a member of the domain of `impl`, with its pointers to
parent and children or `NULL` when it has been moved from. Whatever no pointer leads to
any more is destroyed in the same step (`Survivors`), as `shared_ptr` does. Nodes own their
parents as they own their children, so one kept node keeps the whole tree
(`LivesAsAWhole`), and a tree with more than a root is never freed.

### ByteBuffer and Wrappers

`m_data[b]` and `m_size[b]` are the members; `allocated` and `content` are the
heap. Each `malloc` and `realloc` may return null, at any time and however many blocks are
free; `thrown` records that the last operation ended with `bad_alloc`. What the code has
changed by then stays changed, and the refinement of `ByteStrings` requires that this is
nothing. `malloc(0)` gives a block of no bytes, `realloc(p, 0)` frees `p` and
returns null (as the C library of Linux has it); `resize` takes the null for a
failure. `fault` is set when a freed block is used or freed again. The constant
`Habits` again names what a client does although it should not be able to hurt:
resizing to nothing, and appending a buffer to itself.

`Wrappers` keeps the indices of the code: the bytes of a wrapper are a function
on 0..30 or 0..12, `Shift(x, n)` is `(x >> 8*n) & 0xFF`. As `ByteBuffer`
implements strings, a buffer is its value there, and copies and moves of
wrappers need no actions.

### MassStorage

Commands and statuses carry the bytes of `Wrappers`: the target reads tag, length and
direction from the command it got. Of data only the number of bytes counts.
The target buffers commands (`inbox`) and answers (`outbox`). A read that times out leaves both
as they are, so the answer can come late. A read that fails in any other way (`ReadFails`: a
stall, an I/O error; `ReadOverflows`: more data than room, or a length from 2^31 on, which is
negative as an `int`; such lengths are in the proofs, not in the run, as TLC's numbers end there)
may also lose the answer. Every one of them throws
(device.cpp:270, 310), and so does memory that runs out between the phases (`OutOfMemory`, and
`NoMemory` in the steps that allocate after they have read).

`clean` records that so far no call has ended between a command that the target took and the
reading of its status: by a transfer that failed in whatever way, for lack of memory, or after
a first inquiry that was answered with less than 36 bytes (msdevice.cpp:51). After any of these
the program is out of step with the target, and the code has no way back: drop `clean` from
`StatusAnswersCommand` and TLC shows the status of one command returned for the next. So the
properties that assume `clean` say that these are the only ways to lose step, whatever
requests, refusals and short answers come before, and that results are right until then.
`TagVouchesForData` assumes nothing: also out of step, a status that has the tag of the
command comes with the data of the same command (or none, if none were asked for). The code
compares no tags (line 163); this says that the comparison would be enough.

Only standard inquiry data (of a command without a page) have their length in the fifth byte.
Of a page of vital product data, and of a stale answer taken for inquiry data, that byte may be
anything (`FifthBytes`), and the second inquiry asks for whatever length it says;
`InquiryComplete` promises the full length for standard data only.

## 3. Runs

| Run | Shows | Bounds, and why they are enough |
|---|---|---|
| `DeviceAnyClient` | references exact and handles reachable for every client | 3 objects (one that changes, one it is assigned from, one bystander), 2 handles, 2 maps, 1 interface, counters up to 2 |
| `DeviceClaims` | claims shared between copies: no dangling pointer, exact handle counter, refinement of `SharedResource` | as above with 2 interfaces |
| `DeviceCareful` | no claim outlives or predeceases its claimants, where each interface is claimed through one object | 2 devices, 2 handles, 3 maps: no claim has to wait for an address |
| `DeviceClaimShared` (violation) | copies made before the first claim count apart | |
| `ContextSession` | refinement of `SharedResource`; threads have sessions; for every client and with failing registrations | 3 contexts, 2 sessions |
| `HotplugLoop` | flag, thread, registration and maps agree between calls; references to devices are balanced | 3 functions of 2 kinds (so that one kind empties while the other does not), 2 devices, 2 pending events |
| `HotplugLive` | unregister returns; removals are reported | 2 functions, 1 device; weak fairness |
| `HotplugArrival` (violation) | the first arrival ends the program | |
| `HotplugRace` (violation) | a map is changed under the event thread | |
| `HidReport` | tree and tables are what the nesting prescribes; a tree lives as a whole | descriptors of up to 6 bytes over 11 first bytes: two levels of PUSH or collections with an item inside and one after. The client works on trees of up to 3 nodes (a chain and a fork), with 2 trees, 2 pointers and a node of its own |
| `ByteBuffer` | one owner per block; refinement of `ByteStrings`; also after an allocation failed | 3 buffers (target, source, bystander), 4 blocks (one more for the temporary of an assignment; allocations fail at will, not for want of blocks), 2 values, up to 3 bytes |
| `MassStorage` | answers belong to commands; a matching tag vouches for the data; commands carry what was asked; inquiries complete; calls end | 4 commands (a late answer and what it does to the next), every failure, sizes on both sides of each comparison, pages shorter and longer than the first inquiry asks for, a length whose four bytes differ, blocks of 6, 10 and 16 bytes |

Deadlock is checked where the system never stops (`DeviceClaims`,
`DeviceCareful`, `DeviceClaimShared`, `ByteBuffer`). Elsewhere it is off because an undefined or broken state, the
end of a descriptor, or the bound on tags ends a behaviour.

Fairness. `HotplugLive` assumes weak fairness of each thread's own steps: the
operating system schedules both, and every libusb call they make returns. Nobody
is obliged to call, plug in or unplug. `MassStorage` assumes it of the calling
thread only, and of its regular steps (`HostStep`): no failure is obliged to happen
(`Mishap`), the target may fall silent for ever, and what ends a read then is its timeout.
`CallsReturn` counts a call as ended that frees its buffer twice (`pc = "broken"`, see
`ReadData`): that state is the end of the behaviour, and no return.

## 4. What the violated properties say

* `DeviceClaimShared`: `claimInterface` allocates the map of counters per object
  (device.cpp:233), `releaseInterface` promises release with the last claimant
  (device.h:183).
* `HotplugArrival`: the condition at context.cpp:189 is inverted.
* `HotplugRace`: no lock on the maps (context.cpp:189–209, 269, 279–299).

More of the kind can be seen by a change of one line in a configuration:

| In | change | and check | to see |
|---|---|---|---|
| `DeviceCareful.cfg` | `Habits = {"copy_claimed"}` | `ReleasedByLastClaim` | a copy is in the set of claims without being counted (device.cpp:75) |
| `DeviceCareful.cfg` | `Habits = {"close_shared"}` | `NoFault` | `close()` of one copy leaves it with a handle that the others free (device.cpp:102) |
| `DeviceCareful.cfg` | `Habits = {"claim_twice"}` | `HeldIsClaimed` | a second claim is counted but cannot be released (device.cpp:241) |
| `DeviceCareful.cfg` | | `ResetOnlyUnclaimed` | `reset()` asserts that its own object has no claims; a copy may have one, against device.h:139 (device.cpp:197) |
| `ContextSession.cfg` | `Failures = {}` | `ServedByThread` | `m_hotplugEnabled` of a copy is uninitialised, so a copy may never start its loop (context.cpp:132) |
| `ContextSession.cfg` | `Habits = {}` | `ServedByThread` | a registration that throws leaves its function in the map, without a loop (context.cpp:161–172) |
| `ByteBuffer.cfg` | `Habits = {"to_nothing"}` | `StorageExact` | `resize(0)` frees the block, throws, and leaves it to be freed again (buffer.cpp:124) |
| `ByteBuffer.cfg` | `Habits = {"append_self"}` | `StorageExact` | `append(*this)` reads the block that `realloc` moved away (buffer.cpp:112) |
| `MassStorage.cfg` | | `StatusAnswersCommand`, `NothingLeftUnread` without `clean` | what a failed call left unread meets the next command (msdevice.cpp:51, 153, 162) |
| `MassStorage.cfg` | | `StatusTagMatches` | the status wrapper reads its tag in the other byte order than the command wrapper writes it (mscsw.cpp:96, mscbw.cpp:60) |
| `HidReport.cfg` | | `NoLeaks` | parent and child own each other, so a tree outlives everybody who knows it (hidreport.cpp:106) |
| `HotplugLoop.cfg` | `Arrivals = FALSE`, `Reentrant = FALSE` | `NeverBreaks` | the handler of a removal drops a reference it does not own, and the device is freed before libusb lets go of it (context.cpp:203) |
| `HotplugLoop.cfg` | | the negation of `Dangling` | so does the handler of an arrival that is in the map, and the device is freed while the client has it (context.cpp:190) |
| `HotplugLoop.cfg` | | `LoopOnlyWhileServing` | a function whose registration threw keeps the loop alive (context.cpp:279) |
| `HotplugLoop.cfg` | `Failures = {"spawn"}` | `LoopServes` | after a failed thread creation the loop counts as running (context.cpp:160, 172) |

## 5. Proofs

`DeviceProofs` proves for every number of objects, handles, maps and interfaces:

* for every client: `TypeCorrect`, `DeviceRefsAlwaysExact`,
  `HandleAlwaysReachable`;
* for a client that at most claims what another copy has claimed and resets what
  another copy has claimed (`Orderly`): `OrderlyLeavesNoClaim`;
* for a client that at most resets what another copy has claimed (`Careful`): `CarefulReleasedByLastClaim`.

Assumed are `ConstantsAssumption` (finitely many objects; null is no address) and,
by the last two groups, the bound on `Habits` in the statement itself.

The argument. The counters count sets: `devrefs[d]` the objects that hold `d`,
`refcount[h]` those that share `h`, `count[m][i]` those that point to `m` and have
claimed `i`. Lemmas about cardinalities of `Holders` under the update of one or
two objects carry each action over. For every client `refcount` is only a lower
bound (a `close()` of a shared handle lowers the counter and keeps the pointer),
which is why `HandleReachable` is an inequality. The inductive invariant of the
orderly client adds what the properties do not say but need: an object that has
claims has a map and a handle, an object has a map only while it has claims, and
no two objects share a map, since a Device is never copied while it has one;
hence a map that becomes empty is freed under nobody. The careful client adds
that the claims on one handle are disjoint.

`DeviceSharingProofs` proves of every client that calls `close()` on unshared Devices
only (`ClosesUnshared`; whatever it claims, copies and resets, faults included): the handle
counter is exact (`CountsExact`), a handle is closed by its last sharer
(`HandlesClosedByLastShare`), and the Devices implement `SharedResource`
(`DevicesShareHandles`). The assumption cannot go: a `close()` of one copy lowers the
counter and its destructor lowers it again. A lemma for each member function
carries the exactness over. For the refinement, every step redirects the pointer of one object
or hands it to another (`PointersShift`), so each handle gains a user, loses one, passes
from one to another or keeps those it has, and these are steps of `SharedResource` once
exactness has turned "the counter reaches 0" into "no user is left".

If such a client copies no Device that has claims either (`CopiesUnclaimed`), nothing
dangles: `ClaimsNeverFault` proves `NoFault` for it, although it may claim an interface twice,
so that copies come to share a map (a Device whose second claim cannot be released has no
claims and a map). The counters of such a map do not count the claims any more. The
invariant `MapInv` works with the difference (`Spare`): it is never negative; a map with
two users has something spare and so is never emptied under one of them; and no step lowers
`Spare` (`SpareKept`), because what lowers a counter takes a claim away with it. A copy of a
Device without claims finds something spare in its map (`UnclaimedSpare`), which is where
`CopiesUnclaimed` is needed.

`ContextSessionProofs` proves for every number of contexts and sessions and every client
that event threads have an open session (`ThreadsHaveSessions`) and that the contexts
implement `SharedResource` (`ContextsShareSessions`). The invariant says that
`*m_refcount` is the number of holders, that a session is open exactly while held, and that
a context that was moved from or destroyed holds nothing. Every action does one of four
things to each session (`Joined`, `Left`, `Handed`, `Rested`), and each of those keeps the
count and is a step of `SharedResource`. Registrations may fail, and with copies too.

`HotplugProofs` proves for every number of functions, devices and pending events, with
every failure of `Failures`: `HandlerIsRegistered`, `StopsCompletely`,
`ReferencesAreBalanced`, `NothingLeaks` (no device has more references than owners, so
none outlives them all); and, unless the constructor of `std::thread` throws, `LoopStaysAlive` and
`LoopServesHandles`. The invariant `Sound` says where the event thread may be for each
place of the client thread (`ThreadsFit`), that while the loop is down no function is left
but orphans of failed registrations (`OnlyOrphans`), that an attached device is in one place
of its life and its removal queued once (`OnePlace`), and that references do not exceed owners
(`Counted`); it holds until `broken`. A thread that could not be started
(`NeverStarted`) stays in `ThreadsFit` as an exception; it is why "spawn" must be excluded from
the last two.

`MassStorageProofs` proves for all requests, inquiries, answer sizes, failures and bounds:
always, that commands carry what was asked (`CommandsCarryRequests`, through
`WrappersProofs`), that responses have their headers (`ResponsesHaveHeaders`), and that a status
with the tag of the command vouches for the data (`TagsVouchForData`); as long as
no call has ended between a command and its status (`clean`, section 2), that every answer is
read (`EveryAnswerIsRead`), that status and data belong to the command
(`StatusesAnswerCommands`) and inquiries are complete (`InquiriesAreComplete`). The argument for
the last three is the phases of the transport: `PhasesMeet` says for each phase of the host what
can be in `inbox` and `outbox`, namely nothing, this command, or the answers to it that this
phase and the next will read; `ResponsesInOrder` ties the first response of an inquiry to the
command before the second. Out of step none of this holds, and `TagsTell` is what is left: no tag
is used twice, and answers come as data and status of one command, so a status with the tag
of the command under way follows data with that tag, if there are any. Both need tags that
do not wrap (`MaxTag` is below 2^32).

`HidReportProofs` proves for every descriptor of any length:
`NodesHaveTheirLocals`, `NodesHaveTheirGlobals`, `TreeIsTheNesting`,
`NullIsUnbalance`. The reference side of these properties matches openings with closings by
counting between two positions; the proof works with the balance `Bal` of openings and
closings up to a position instead. `Innermost` is the last opening that the balance has come
back to, and `EnclosingIs` shows the two ways of matching equal. For collections, `Nest` says that
nothing opened after the item of `lastroot` is still open (`JustIn`); it strengthens
`TreeMatchesNesting`, which does not speak of the parser's place. For PUSH and POP, `Stacked`
says of each table on the stack which PUSH left it there (`PushedAt`) and that nothing
below it has been popped since; `GlobalsInEffect` alone only speaks of nodes. `Kin` ties
children to parents. Of `ReportTree`, `ClientsLeaveTheParser` shows that a client's steps
are stutters of the parser, and `TreesLiveAsAWhole` that a tree lives or dies whole. For the
latter, `Heap` says that no pointer of an object or of the client leads to a node that is gone; if a node
survives, so does its parent, and by the least node so does the root, and then all its
descendants. `ClientAssumption` keeps the client's own nodes and `NULL` apart from the nodes of the
tree.

`ByteBufferProofs` proves for every number of buffers and blocks and every size:
with allocations that may fail at any time: `TypeCorrect` for every client; `CarefulStorageExact` and
`CarefulImplementsStrings` (the refinement of `ByteStrings`) for the client that has
no `Habits`. The inductive invariant `Storage` says that a pointer leads to a
block of the buffer's size, that no two lead to the same, that one leads to
each, and that null pointers have size 0. `StorageExact` alone is nearly that, but it
counts owners (`OneOwner`), which no single step of the prover can use; `Apart` and
`Covered` are the two halves of it. The refinement needs one lemma for each thing
the allocator does (take, give back, replace a block): since blocks have one
owner, changing one changes the string of one buffer. An operation that throws stutters.

`WrappersProofs` proves for every number of 32 bits and every block of up to 16
bytes that the getters return what the constructors were given
(`CommandReadsBack`, `StatusReadsBack`), that wrapping the bytes of a wrapper again
keeps them, and, for every size from 36 on, that no field of a response ends
beyond it (`FieldsAlwaysFit`). The first two rest on `SumOfBytes`: a number is
the sum of its shifted bytes.

Only model-checked: liveness (`StopTerminates`, `RemovalsReported`,
`CallsReturn`), which is out of the prover's reach, and the violations of section 4,
which are counterexamples.

## 6. Not modelled

What transfers return is modelled in `MassStorage` and `HidReport` only; elsewhere they are
uses of the handle, as are `clearHalt` and the configurations. `getDescriptor` and
`isValid` change nothing and do not fail. Exceptions,
hashing, examples and packaging have no behaviour to check. Of an inquiry response
the places of the fields are modelled, not the bits in them. Command blocks of 17 to
31 bytes, which pass the assertion at mscbw.cpp:77 and are written past the end of
the wrapper, are excluded by `CommandArguments`. What the parser of HID reports reads beyond the end of
the buffer (hidreport.cpp:270), for an item that the end cuts off, is undefined: the model lets
that item have any bytes and says nothing about it. What libusb does inside is external:
its queue of hotplug events, its handles and claims, its reference counts.

## 7. Plan

1. `Hotplug` with two Contexts, as far as their event threads serve each other's callbacks
   (context.cpp:150), and its proofs.
2. Proofs of what each habit costs: for the clients that the theorems about `Device` exclude,
   the strongest statements that remain true.
