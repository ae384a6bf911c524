------------------------------- MODULE EventLoop ------------------------------
(***************************************************************************)
(* EpollEventLoop and its two kinds of clients, SocketCanIntf and          *)
(* EpollEvent: registrations with the kernel by file descriptor, contexts  *)
(* on the heap, the array of triggered events the loop works through, and  *)
(* callbacks that may initialize and deinitialize clients themselves, the  *)
(* one being called and others that are still to be called.                *)
(*                                                                         *)
(* Clients belong to the thread that runs the loop; only EpollEvent::set() *)
(* is for other threads.  The owner of a client deinitializes it once per  *)
(* successful initialization, and is not told when the client has done so  *)
(* itself because its interface disappeared.                               *)
(***************************************************************************)
EXTENDS Integers, FiniteSets, SequencesExt

CONSTANTS Intfs,     \* SocketCanIntf objects
          Events,    \* EpollEvent objects
          Contexts,  \* addresses an EventContext may be allocated at
          MaxFd,     \* descriptors are 1..MaxFd
          MaxBatch,  \* kMaxEventsPerIteration, 16 in the code
          MaxInits,  \* bound on n_events_, which is never counted down
          MaxFrames  \* frames a socket queues

CONSTANT Null        \* the null pointer

Clients == Intfs \cup Events
Fds == 1..MaxFd

ASSUME LoopAssumption ==
  /\ Intfs \cap Events = {} /\ Null \notin Contexts
  /\ MaxFd \in Nat \ {0} /\ MaxBatch \in Nat \ {0} /\ MaxInits \in Nat
  /\ MaxFrames \in Nat \ {0}

VARIABLES
  loop,      \* files: client by open descriptor; watch: context by watched
             \* descriptor; heap: [fd, client] by live context; n_events_; batch:
             \* the triggered events whose callbacks have not begun
  run,       \* state of run_until_empty
  calling,   \* set of at most one: [client, stage, err] of the callback under way
  client,    \* inited: by its owner; fd_, evt_; broken_
  pending,   \* whether the eventfd's counter is above 0 (1), or frames queued at the socket
  gone,      \* interfaces that have disappeared: EPOLLERR
  owed       \* history: events set since their callback last began

vars == <<loop, run, calling, client, pending, gone, owed>>

Init ==
  /\ loop = [files |-> <<>>, watch |-> <<>>, heap |-> <<>>, n_events |-> 0, batch |-> <<>>]
  /\ run = "idle" /\ calling = {}
  /\ client = [c \in Clients |-> [inited |-> FALSE, fd |-> -1, evt |-> Null, broken |-> FALSE]]
  /\ pending = [c \in Clients |-> 0] /\ gone = {} /\ owed = {}

-------------------------------------------------------------------------------
Without(f, x) == [y \in DOMAIN f \ {x} |-> f[y]]
With(f, x, v) == [y \in DOMAIN f \cup {x} |-> IF y = x THEN v ELSE f[y]]

\* The thread of the loop is in the owner's code: not in run(), or in a callback.
OwnersTurn == run \in {"idle", "running", "emptied"} /\ (calling = {} => run # "running")
              /\ \A call \in calling : call.stage = "owner"

\* Mutant of Registered: it is not counted.
RegisteredUncounted(l, fd, c, evt) ==
  [l EXCEPT !.watch = With(@, fd, evt), !.heap = With(@, evt, [fd |-> fd, client |-> c])]

\* register_event of a new descriptor.
Registered(l, fd, c, evt) ==
  [l EXCEPT !.watch = With(@, fd, evt), !.heap = With(@, evt, [fd |-> fd, client |-> c]),
            !.n_events = @ + 1]

\* Mutant of Dropped: triggered events are not looked through.
DroppedNone(batch, evt) == batch

\* drop_event.
Dropped(batch, evt) == [i \in DOMAIN batch |->
  IF batch[i].evt = evt THEN [batch[i] EXCEPT !.evt = Null] ELSE batch[i]]

\* deregister_event: a descriptor the kernel does not know leaves everything as
\* it is; n_events_ is not counted down.
Deregistered(l, evt) ==
  IF l.heap[evt].fd \notin DOMAIN l.watch THEN l
  ELSE [l EXCEPT !.watch = Without(@, l.heap[evt].fd), !.heap = Without(@, evt),
                 !.batch = Dropped(@, evt)]

\* close(2): the kernel stops watching a descriptor that is closed.
Closed(l, fd) == [l EXCEPT !.files = Without(@, fd), !.watch = Without(@, fd)]

\* init() of either kind: the lowest free descriptor, registered.  broken_ is not
\* reset.  A failing init() closes what it opened and leaves nothing behind.
InitClient(c) ==
  /\ OwnersTurn /\ ~client[c].inited /\ loop.n_events < MaxInits
  /\ \E fd \in Fds \ DOMAIN loop.files, evt \in Contexts \ DOMAIN loop.heap :
       /\ \A other \in Fds \ DOMAIN loop.files : fd <= other
       /\ loop' = Registered([loop EXCEPT !.files = With(@, fd, c)], fd, c, evt)
       /\ client' = [client EXCEPT ![c].inited = TRUE, ![c].fd = fd, ![c].evt = evt]
  /\ pending' = [pending EXCEPT ![c] = 0] /\ gone' = gone \ {c} /\ owed' = owed \ {c}
  /\ UNCHANGED <<run, calling>>

\* Mutant of DeinitedLoop: the mark is not looked at.
DeinitedTwice(c) ==
  Closed(IF client[c].evt \in DOMAIN loop.heap THEN Deregistered(loop, client[c].evt) ELSE loop,
         client[c].fd)

\* deinit(): a broken interface is not deregistered, but closed again.
DeinitedLoop(c) ==
  Closed(IF client[c].broken THEN loop ELSE Deregistered(loop, client[c].evt), client[c].fd)
DeinitedClient(c) ==
  [client[c] EXCEPT !.fd = IF c \in Events THEN -1 ELSE @, !.broken = c \in Intfs]

DeinitClient(c) ==
  /\ OwnersTurn /\ client[c].inited
  /\ loop' = DeinitedLoop(c)
  /\ client' = [client EXCEPT ![c] = [DeinitedClient(c) EXCEPT !.inited = FALSE]]
  /\ owed' = owed \ {c}
  /\ UNCHANGED <<run, calling, pending, gone>>

\* Whose file the client's descriptor is: another's after a second close().
FileOf(c) == {loop.files[fd] : fd \in {client[c].fd} \cap DOMAIN loop.files}

\* set(), from any thread; it returns false where the descriptor is no eventfd.
Set(c) ==
  \E file \in FileOf(c) \cap Events :
    /\ client[c].inited
    /\ pending' = [pending EXCEPT ![file] = 1] /\ owed' = owed \cup {c}
    /\ UNCHANGED <<loop, run, calling, client, gone>>

\* The link: a frame arrives, or the interface goes away.
FrameArrives(c) ==
  /\ c \in Range(loop.files) \ gone /\ pending[c] < MaxFrames
  /\ pending' = [pending EXCEPT ![c] = @ + 1]
  /\ UNCHANGED <<loop, run, calling, client, gone, owed>>

Disappears(c) ==
  /\ c \in Range(loop.files) \ gone
  /\ gone' = gone \cup {c}
  /\ UNCHANGED <<loop, run, calling, client, pending, owed>>

-------------------------------------------------------------------------------
Start ==
  /\ run \in {"idle", "emptied"} /\ calling = {}
  /\ run' = "running"
  /\ UNCHANGED <<loop, calling, client, pending, gone, owed>>

BetweenBatches == run = "running" /\ calling = {} /\ loop.batch = <<>>

ReturnEmpty ==
  /\ BetweenBatches /\ loop.n_events = 0
  /\ run' = "emptied"
  /\ UNCHANGED <<loop, calling, client, pending, gone, owed>>

\* epoll_wait failed (a signal): false is returned.
ReturnFailed ==
  /\ BetweenBatches /\ loop.n_events > 0
  /\ run' = "idle"
  /\ UNCHANGED <<loop, calling, client, pending, gone, owed>>

Ready(fd) == pending[loop.files[fd]] > 0 \/ loop.files[fd] \in gone

\* epoll_wait: up to MaxBatch descriptors that are ready, in any order, level
\* triggered.  The client in an entry is history.
Wait ==
  /\ BetweenBatches /\ loop.n_events > 0
  /\ \E ready \in SUBSET {fd \in DOMAIN loop.watch : Ready(fd)} \ {{}} :
       /\ Cardinality(ready) <= MaxBatch
       /\ \E order \in SetToSeqs(ready) :
            loop' = [loop EXCEPT !.batch =
              [i \in DOMAIN order |->
                 [evt |-> loop.watch[order[i]], client |-> loop.heap[loop.watch[order[i]]].client,
                  err |-> loop.files[order[i]] \in gone]]]
  /\ UNCHANGED <<run, calling, client, pending, gone, owed>>

Arrived == run = "running" /\ calling = {} /\ loop.batch # <<>>
Entry == Head(loop.batch)
Advanced == [loop EXCEPT !.batch = Tail(@)]
\* The client whose callback the entry leads to.
Target == loop.heap[Entry.evt].client

\* The entry was nulled by a callback before it: handler->callback(...).
DispatchNull ==
  /\ Arrived /\ Entry.evt = Null
  /\ run' = "crashed"
  /\ UNCHANGED <<loop, calling, client, pending, gone, owed>>

\* Mutant of ReadsFirst: the counter is read when the callback has returned.
ReadsLast == FALSE

\* on_trigger reads the eventfd, then calls back.
ReadsFirst == TRUE

\* The callback is the target's own, whosever counter its descriptor has read.
DispatchEvent ==
  /\ Arrived /\ Entry.evt # Null /\ Target \in Events
  /\ \E file \in FileOf(Target) :
       /\ pending[file] > 0
       /\ pending' = IF ReadsFirst
                     THEN [pending EXCEPT ![file] = IF file \in Events THEN 0 ELSE @ - 1]
                     ELSE pending
  /\ owed' = owed \ {Target}
  /\ calling' = {[client |-> Target, stage |-> "owner", err |-> FALSE]}
  /\ loop' = Advanced
  /\ UNCHANGED <<run, client, gone>>

\* The descriptor is closed, or a socket's without frames: no callback.
DispatchEventFails ==
  /\ Arrived /\ Entry.evt # Null /\ Target \in Events
  /\ \A file \in FileOf(Target) : file \in Intfs /\ pending[file] = 0
  /\ loop' = Advanced
  /\ UNCHANGED <<run, calling, client, pending, gone, owed>>

\* The descriptor has become that of another event, which is not set: the
\* eventfd is a blocking one.
DispatchEventBlocks ==
  /\ Arrived /\ Entry.evt # Null /\ Target \in Events
  /\ \E file \in FileOf(Target) \cap Events : pending[file] = 0
  /\ run' = "blocked" /\ loop' = Advanced
  /\ UNCHANGED <<calling, client, pending, gone, owed>>

\* on_socket_event begins.
DispatchIntf ==
  /\ Arrived /\ Entry.evt # Null /\ Target \in Intfs
  /\ calling' = {[client |-> Target, stage |-> "socket", err |-> Entry.err]}
  /\ loop' = Advanced
  /\ UNCHANGED <<run, client, pending, gone, owed>>

\* read_nonblocking takes a frame of whatever its descriptor is open for and
\* hands it to the frame processor.
ReadFrame ==
  \E call \in calling : \E file \in FileOf(call.client) \cap Intfs :
    /\ call.stage = "socket" /\ pending[file] > 0
    /\ pending' = [pending EXCEPT ![file] = @ - 1]
    /\ calling' = {[call EXCEPT !.stage = "owner"]}
    /\ UNCHANGED <<loop, run, client, gone, owed>>

\* The owner's code returns; a client that has become broken reads no further.
OwnerReturns ==
  \E call \in calling :
    /\ call.stage = "owner"
    /\ calling' = IF call.client \in Events THEN {}
                  ELSE {[call EXCEPT !.stage = IF client[call.client].broken
                                               THEN "end" ELSE "socket"]}
    /\ pending' = IF ReadsFirst \/ call.client \in Intfs THEN pending
                  ELSE [pending EXCEPT ![call.client] = 0]
    /\ UNCHANGED <<loop, run, client, gone, owed>>

\* No more frames, no more reading, or none because recvmsg reports the error
\* first: an error in the mask deinitializes.
SocketEventEnds ==
  \E call \in calling :
    /\ \/ call.stage = "end"
       \/ call.stage = "socket" /\ call.err
       \/ call.stage = "socket" /\ \A file \in FileOf(call.client) \cap Intfs : pending[file] = 0
    /\ IF call.err
       THEN /\ loop' = DeinitedLoop(call.client)
            /\ client' = [client EXCEPT ![call.client] = DeinitedClient(call.client)]
       ELSE UNCHANGED <<loop, client>>
    /\ calling' = {}
    /\ UNCHANGED <<run, pending, gone, owed>>

Next ==
  \/ \E c \in Clients : InitClient(c) \/ DeinitClient(c)
  \/ \E c \in Events : Set(c)
  \/ \E c \in Intfs : FrameArrives(c) \/ Disappears(c)
  \/ Start \/ ReturnEmpty \/ ReturnFailed \/ Wait
  \/ DispatchNull \/ DispatchEvent \/ DispatchEventFails \/ DispatchEventBlocks
  \/ DispatchIntf
  \/ ReadFrame \/ OwnerReturns \/ SocketEventEnds

Spec == Init /\ [][Next]_vars

Dispatch ==
  \/ DispatchNull \/ DispatchEvent \/ DispatchEventFails \/ DispatchEventBlocks \/ DispatchIntf
  \/ ReadFrame \/ OwnerReturns \/ SocketEventEnds
WaitFinds(c) == Wait /\ \E i \in DOMAIN loop'.batch : loop'.batch[i].client = c

\* The owner's code returned before the next frame came.
Drains == OwnerReturns /\ \A call \in calling : pending[call.client] = 0

\* The thread keeps running and its callbacks return; a socket is read faster than
\* the link fills it; epoll puts a descriptor it has reported at the end of its
\* ready list, so no client is passed over for ever.
FairSpec ==
  /\ Spec /\ WF_vars(Dispatch) /\ SF_vars(Drains) /\ SF_vars(SocketEventEnds)
  /\ \A c \in Clients : SF_vars(WaitFinds(c))

-------------------------------------------------------------------------------
\* Every variable has its type, and what the kernel watches is an open
\* descriptor with a live context of the client that opened it, even after
\* descriptors were closed twice and their numbers given to others; the EvtId of
\* a client that may still deregister is its own context.
TypeOK ==
  /\ run \in {"idle", "running", "emptied", "crashed", "blocked"}
  /\ Cardinality(calling) <= 1
  /\ \A c \in Clients : pending[c] \in 0..(IF c \in Events THEN 1 ELSE MaxFrames)
  /\ gone \subseteq Intfs /\ owed \subseteq Events
  /\ DOMAIN loop.files \subseteq Fds /\ DOMAIN loop.heap \subseteq Contexts
  /\ \A fd \in DOMAIN loop.watch :
       /\ fd \in DOMAIN loop.files /\ loop.watch[fd] \in DOMAIN loop.heap
       /\ loop.heap[loop.watch[fd]] = [fd |-> fd, client |-> loop.files[fd]]
  /\ \A c \in Clients : client[c].inited /\ ~client[c].broken
       => client[c].evt \in DOMAIN loop.heap /\ loop.heap[client[c].evt].client = c

\* A triggered event that has not been handled yet is a null pointer or still
\* leads to the client it was triggered for, whatever the callbacks before it
\* have deinitialized, reinitialized and allocated in the freed context's place.
NoDanglingTrigger ==
  \A i \in DOMAIN loop.batch :
    LET entry == loop.batch[i]
    IN  entry.evt # Null
          => /\ entry.evt \in DOMAIN loop.heap
             /\ loop.heap[entry.evt].client = entry.client

\* run_until_empty returns true only when nothing is watched any more.
LoopLeavesNobodyBehind ==
  [][run = "running" /\ run' = "emptied" => DOMAIN loop.watch = {}]_vars

\* The client's descriptor is open, its own, and no other event's: a second close()
\* of an interface that has disappeared gives an event's descriptor to another,
\* and then a trigger of the one reads the counter of the other.
OwnDescriptor(c) == FileOf(c) = {c} /\ \A other \in Events \ {c} : FileOf(other) # {c}

\* A set() made while the loop runs is followed by a callback of that event which
\* begins after it, also one made during the callback of the set() before; unless
\* the event is deinitialized, the loop ends, or the event's descriptor does not
\* stay its own.
SetReachesCallback ==
  \A c \in Events :
    (c \in owed /\ run = "running") ~> (c \notin owed \/ run # "running" \/ ~OwnDescriptor(c))

===============================================================================
