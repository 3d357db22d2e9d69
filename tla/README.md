# A verification of lumimux

TLA+ models of lumimux, checked with TLC on small instances and, where it
matters most, proved with TLAPS for every size. The reference is the code under
`src/`; every definition that stands for code is tied to its lines in
`PROJECT.json` ("map").

## The system

A *session* is a directory under the user's runtime directory. Each *window* is
a process of its own, `lumi-mserver`, which owns one pseudo-terminal and its
screen image and listens on a Unix socket inside that directory. Any number of
`lumi-attach` clients connect to every window. One of them holds the keyboard
(role WRITE), or several in multi-writer mode; the others watch (VIEW). Nothing
is central: clients agree on who holds the keyboard through files of the session
directory (a write token, a one-message mailbox, a roster) and each server
enforces it. Clients of another user or another host are relayed by a broker or
a proxy, the latter over an encrypted reliable datagram channel.

| Part | State | Operations | What makes it hard |
|---|---|---|---|
| `lumi-mserver` | client table, output queues, roles, size, input runs, PTY flags | attach, a handler per message, PTY input, signals | a failing send drops a client inside any handler, which sends to the others, which may fail too |
| attribute store (`libattr`) | table with generations, open transactions, a file | begin, get, set, delete, commit, rollback, save, load | optimistic concurrency, commit write by write, killed in between |
| session control (`sessdir_control`) | token (`flock`), `control.msg`, roster | acquire, release, post, read, kick | several processes and no lock but the token; holders die |
| attach client, sharing | one role, claim flags, last message seen | claim, take over, grant, request, deny, kick, retry, leave | three ideas of who types, brought into line by messages |
| session directory and state | server directories, `state`, layouts, watch | create, list, prune, save | pruning races registration |
| netchan | windows, reorder and fragment slots, retransmission | send, service, receive | loss, reordering, full queues, limits on retries |
| handshake, proxy, broker | connection states, relayed windows, approvals | handshake steps, forward, approve | two peers, timeouts, half-open connections |
| event loop (`libiox`) | descriptors, timers, signals | add, remove, dispatch | removal while dispatching |
| keys, prediction, window manager, tiling, emulator, text | sequential data structures | per key, per byte, per edit | algorithms to check against a plain definition |

`PROJECT.json` ("components") lists every part with its sources, and says for
those not modelled why.

## Modules

| Module | Models | Checked by |
|---|---|---|
| `MServer` | one `lumi-mserver` | `mserver_*`, proofs |
| `MServerProofs`, `MServerSafety`, `MServerSizing` | theorems about `MServer` | `tlapm` |
| `AttrStore` | `attr_store.c` and the handlers that call it | `attr_*` |
| `AttrAtomic` | what a transactional store promises | refined by `AttrStore` |
| `Share` | the keyboard: several clients, several windows, token, mailbox | `share_*` |
| `Mailbox` | `sessdir_ctl_post`, call by call | `mailbox`, proof |
| `MailboxProofs` | theorem about `Mailbox` | `tlapm` |
| `MCMServer`, `MCAttrStore`, `MCShare` | values for the instances | |

### MServer

The server is single threaded, but its handlers are not atomic: `mclient_enqueue`
writes at once, a write may find the peer gone, and then `mclient_disconnect`
runs right there. It rolls back, tells the others (`client_event`), may pass the
keyboard on (`role_reassign`) and resizes: more sends. `stack` holds the frames
of these nested calls; `Event` actions run only when it is empty; `Step` runs the
innermost frame up to its next call. The outcome of every send (written, queued,
peer gone) is a choice. Table, flags, queue lengths (in messages, with low water,
high water and hard limit), `inrun`/`inq`, `client_event_depth`,
`last_pty_flags`, the loop's interest in the PTY and the phases of the process
are the code's. Two history variables serve the properties only: `peer`, what
the client of a slot was told, and `upsets`, what legitimately ends the promise
of a single writer (multi-writer mode; a drop in the middle of a token claim).

### AttrStore and AttrAtomic

The table is a sequence, because deletion moves the last entry into the hole.
A commit is one step that checks the read set (`Valid`) and one per write
(`Apply`), so that `Crash` can fall between them; then the slot is cleared and
the file is replaced (`Save`, which may fail). Keys and values are sequences of
words, so that the `key=value` lines of the file can be written and split.
`AttrAtomic` has neither generations nor slots nor a file: a transaction commits
at one instant, if what it relied on still holds. `Transactional` is
`AttrAtomic!Spec` under the mapping in which a commit under way counts as done.

### Share

Who types is recorded in three places: the lock (`lock`), the role table of
every server (`srv`) and the single role each client believes it has
(`cl[c].role`). A client goes through `out`, `claim`, (`takeover`,) `attach`,
`listed`, `in`, and leaves through `stop`, `closed`, `gone`. Between `listed`
(it is in the roster) and `in` (its watch on the directory runs) it can be named
in a message it will not hear of until the next change. `wake` is the pending
inotify event; `toS` and `toC` are the two directions of the connections.
`on_sessdir_watch` is split where the code waits for servers: it attaches to new
windows, then looks at the mailbox. A window that cannot be reached is skipped
until the next listing (`SkipWindow`), and a client left without any gives up. A
client whose watch does not start polls the mailbox by a timer
(`share_ctl_timer`) and never looks for windows. A server handler is one step here, as sends
that fail inside it are the subject of `MServer`. A post is one step, which is
what the code intends; `Mailbox` shows what happens when posts meet. Messages to
a client that is gone vanish.

Not in `Share`: remote clients, session switching, windows that end, a change of
MODE, pending clients that wait for approval. A handshake that times out is
modelled as the client sees it, a window skipped; that the slow server may admit
the client and find it gone later is not.

### Mailbox

`sessdir_ctl_post` reads the last number, opens `control.msg.new`, writes it and
renames it. All posters use that one name, so the module models inodes and
names: an `fopen` empties the inode it finds, and a `rename` moves whatever has
the name now, or fails and is followed by an `unlink` of whatever has it then.
Nothing keeps posts apart, and nothing does in the model. A poster may die
between any two calls; with a full disk `fopen` may fail, and so may `fclose`,
whose result the code ignores. Two history variables serve the properties:
`short`, the files whose writer died or failed before its line, and `upset`,
that two posts have met or a line was lost.
Then the promise of `sessdir_control.c:250`, "a reader either sees the old
message or the new one", is off: an empty file is seen. `Intact` says when, and
for how long.

## Runs

All bounds are in the `.cfg` files. Actions that no passing run fires would be
dead: between them the runs fire all.

| Run | Instance | Shows |
|---|---|---|
| `mserver_roles` | 3 slots; plain, token and view clients; ROLE_REQUEST; queue of 1 | one writer, nobody stuck without a keyboard, each client knows its role and who is there, a reply comes first, announcements do not nest |
| `mserver_life` | 3 slots; KILL, SIGTERM, removed directory | every handler returns; a server told to stop disconnects everyone and ends |
| `mserver_flow` | 2 slots; pauses, backlog 1/2/3, output, replays, attributes; both modes | free slots are clean, backpressure engages |
| `mserver_input` | 2 slots, 2 programs, 2 heights; runs of up to 2 messages | typed input has one owner; the window has the smallest height that counts |
| `attr_txn` | 1 key, 2 values, 4 transactions, 2 at a time | refinement of `AttrAtomic`: change, deletion and re-creation between a read and its commit |
| `attr_crash` | 2 keys, 2 transactions, failing saves, kills, file removed | refinement across restarts; generations are fresh; slots belong to clients that are there |
| `share_pair` | 2 clients that join or watch, 2 windows, one of them late; 1 message; leaving and dying | once quiet: same writer everywhere, beliefs true, holder writes, somebody types, viewers only watch; a window may be skipped at first |
| `share_takeover` | 2 clients that take over or join; 3 messages, the first a request or `lumi share -g` | once quiet: beliefs true, holder writes, somebody types; with and without a watch |
| `share_settle` | 2 clients, 2 windows, 1 grant; fair | the exchange ends; the keyboard arrives on every window |
| `mailbox` | 2 posters with 2 posts each that may overlap, killed anywhere, disk full or not; 1 reader | a death alone never leaves an empty message; the last one is heard while posts have not met |
| `share_split` (violation) | 3 clients, 2 windows; one leaves | see below |
| `share_forever` (violation) | 2 clients, 1 window, 2 commands; fair | see below |

Why the bounds are enough to be interesting. Three slots let a handler drop one
client while it serves a second and a third is looking on; two are enough where
the question is about one slot and its successor. A queue of one message makes
every send able to reach the hard limit. Four transactions are what it takes to
create, read, delete and create again a key under an open transaction. The
listed runs never fill a transaction's read set; `AttrStore_txn` with
`Keys <- Plain`, `TxnKeys = 1`, `MaxGen = 4` does, and passes `TypeOK` and
`Transactional` too (82,976 states, but several minutes). Two
windows are the least on which answers can differ; with two clients they do not,
with three they can (`share_split`). With one message in `share_pair` no grant
can be overwritten before it is heard; with two it can, the token is then free,
and a window created after that goes to whoever finds it first. The bound
`MaxUser` lets the kicks of a takeover follow a user's message. `share_settle`
with "nowatch" added passes too (103,278 states, three minutes). Symmetry (clients,
or programs) is used in safety runs only.

Deadlock checking is off in the `Share` and `Mailbox` runs, where clients may all
have left and posters may be done. It is on for the servers and the store.

### Fairness

* `MServer`: `WF(Step)`, as C code that runs goes on running, and `SF(Cleanup)`:
  handlers of the same poll pass may still run after the loop was told to stop,
  but the loop ends after that pass.
* `Share`: weak fairness of each process's own work, of reading each stream and
  of the two timers; the poll loops serve all descriptors and timers. None for
  users. `Settles` and `KeyboardArrives` use it, and so does `share_forever`.
  That run bounds the streams by a constraint, which can only remove behaviours:
  the cycle it reports is one of the unbounded system.
* `Mailbox`: weak fairness of polling, as each rename wakes the readers. None
  for posters, which are people at a menu or a command line.

## Theorems

Proved for every number of slots, every limit with low < high <= hard, every set
of flags, heights, events and modes (`ConstantsAssumption`), and whatever sends
fail:

| Theorem | Statement | Argument |
|---|---|---|
| `TypeCorrect` | `Spec => []TypeOK` | with `EventDepth` as `TypeInv`: frames are pushed and popped with their types, and no queue passes the hard limit |
| `DepthCorrect` | `Spec => []EventDepth` | the counter equals the number of announcement frames on the stack, at most one; needs the types of frames, and they need it |
| `SlotsClean` | `Spec => []FreeSlotsClean` | part of `SlotInv` |
| `Backpressure` | `Spec => []BackpressureEngages` | part of `SlotInv` |
| `InputOwnership` | `Spec => []InputOwned` | part of `SlotInv` |
| `SizeCorrect` | `Spec => []SizeFits` | `SizeInv`: the size fits, or a frame that will call `resize_to_fit` is on the stack |

And for every finite set of posters and any number of posts
(`MailboxAssumption`), whichever overlap, die or fail:

| Theorem | Statement | Argument |
|---|---|---|
| `MailIntact` | `Spec => []Intact` | `MailInv`: the two names never lead to one file; every empty file is being written or its writer has died or failed; and until posts meet, the one under way has its file under the temporary name |

`SlotInv` joins the three: `mclient_alloc` clears only a part of a slot, so a
client inherits the pause, the backlog and the open run of the one before it
unless free slots are clean, and neither backpressure nor ownership is inductive
without that. `MailInv` speaks of all files because a rename can bring any of
them into place. `SizeInv` is needed because the size is wrong during a handler: a
drop nested in it may leave the outer resize pending, and the stack says so.

Each proof has one lemma per frame kind or group of events, and the invariants
were checked by TLC before they were proved.

Only model-checked: liveness (the prover has neither fairness nor ENABLED), the
refinement of `AttrAtomic` (the mapping reads sequences by recursion over data),
the other properties of `MServer` (their history variables make the invariants
large), `Share`, and of `Mailbox` its types and `Heard`.

## Disagreements between text and code

Two are kept as runs:

* `share_split`. `sessdir_control.h:17`: "The lock is what makes the answer the
  same everywhere". Two clients that find the token taken ask each window without
  it; if the holder leaves meanwhile, each window goes to whoever asked it first,
  and nothing makes the answers agree afterwards.
* `share_forever`. `lumi.1.in:372`, on `lumi share -g`: "The client holding it
  steps down without being asked". Grants in quick succession leave both
  clients with the TOKEN flag, and each role change makes its receiver announce
  the flags again. With the two grants of the run a demotion from start-up must
  still be unread when the second is acted on; three quick grants need none.

What these leave uncovered is said where it bites, in the notes of "hazards". The
two histories that set cases apart do so for what is listed here: `upsets` of
`MServer` keeps a drop inside a token claim out of `OneWriter` and
`KeyboardHeld` (`SingleWriter` and `SomebodyTypes` have it in), and `upset` of
`Mailbox` keeps posts that met out of `Heard`. `PresenceKnown` is about arrivals;
departures inside an announcement are not announced.

The others can be had from the same modules by changing constants of a run's
configuration and checking the one property:

| Property | Start from, and change | Text | What happens |
|---|---|---|---|
| `KeepingUpKeepsMoving` | `MServerFlow`, events FLOW_CTRL | `mserver.c:288` "a client that is keeping up keeps the session moving" | a client attaches while all others are paused: nobody re-evaluates the interest in the PTY |
| `EchoKnown` | `MServerFlow`, events OUTPUT | `mserver.c:1228` "the others already know it" | the flag changed since the last output: only the newcomer is told |
| `InjectKeepsView` | `MServerInput`, no events | `ipc_msg.h:80` "keeps a view role" | the writer leaves while `lumi send-input` is connected, which is given the keyboard |
| `RunsEndWithTheClient` | `MServerInput`, events INPUT_BEGIN and INPUT_END, flags TOKEN or none | `mserver.c:146` "A bare INPUT with no open run bypasses this entirely" | a client demoted inside a run cannot end it |
| `SingleWriter` | `MServerRoles`, flags TOKEN or none | `DEV.md:67` "One client holds the keyboard" | a third client is dropped during a token claim; the one just demoted gets the keyboard back |
| `SomebodyTypes` (`MServer`) | the same | `mserver.c:724`, which has `role_reassign` so that no session is "left with viewers who cannot type" | the claimant is dropped during its claim, and its successor demoted |
| `Transactional` | `AttrStore_crash`, one slot in the table, no faults | `attr_store.h:1` "transactional" | a commit finds the table full half way |
| `Transactional` | `AttrStore_crash`, a key that contains "=" | `test_attr_store.c:323` "save and load round-trip" | the key comes back as another |
| `ReadsHold` | `AttrStore_txn`, 3 transactions | `DEV.md:485` "transactionally" | absent, present, absent again: generation 0 hides what was read in between |
| `SomebodyTypes` (`Share`) | `Share_split`, with "crash" for "detach" | `sessdir_control.h:20` "no crash can leave a session with nobody able to type" | a server gave the keyboard to a client whose last reply said VIEW |
| `OfferRecorded` | `Share_settle`, with "detach" | `attach.c:6180` "become the recorded holder before anyone else does" | the leaving client closes its connections before it releases the token |
| `BeliefTrue` | `Share_settle`, multi-writer mode, no acts | `attach.c:6167` "every window of one client is granted the same role" | a token claim demotes those already at that window only |
| `BeliefTrue` | `Share_takeover`, acts "command" and "skip" | the same | a claim runs out of tries, the holder lets go, and a window it had skipped has gone to the other client when it finds it |
| `WindowsFound` | `Share_pair`, no acts | `DEV.md:200` "triggers rediscovery when mservers appear" | a window is created between a client's listing and its watch |
| `SeqRises` | `Mailbox` | `sessdir_control.h:108` "It rises with each post" | two posters that overlap read one last number, or one of them renames the file the other has just emptied |

## Plan

1. Done: `MServer` with its proofs; `AttrStore` against `AttrAtomic`; `Share` and
   `Mailbox`.
2. `Netchan` (`netchan.c`): sequence numbers, reorder and fragment slots,
   acknowledgement and retransmission over a network that loses, repeats and
   reorders, against an abstract FIFO. Then the message sequence of the handshake
   (`nc_auth.c`), and the proxy and broker as relays of `MServer` clients.
3. Session directory: registration, `sessdir_cleanup_stale` and the state file
   under concurrent processes, against a set of live windows; the event loop's
   dispatch with removal and timers.
4. Algorithms as operators against reference definitions: the prefix key
   machine, prediction, split tree, z-order, parser states, scrollback ring,
   the text buffer with undo.
5. Proofs: `GenerationsFresh` and `SlotsOwned` of `AttrStore`, `ViewersWatch`
   of `Share`, role invariants of `MServer`; the step simulation of the channel.

## Not modelled

Drawing, rendering, parsing of options and configuration, and vendored tables
and cryptography have no state shared between processes; the BASIC interpreter,
the file browser and the editors are programs of their own. Within the modelled
parts: TERM_COLORS, titles and the contents of replays (`MServer`), the length
limits of keys and values (`AttrStore`), and what the list after `Share` above
names.
