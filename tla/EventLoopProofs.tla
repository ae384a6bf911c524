---------------------------- MODULE EventLoopProofs ---------------------------
(***************************************************************************)
(* EventLoop for any number of clients, contexts and descriptors and any   *)
(* size of a batch: types, that no triggered event is left dangling, and   *)
(* that the loop does not end while anything is watched.                   *)
(***************************************************************************)
EXTENDS EventLoop, FiniteSetTheorems, SequenceTheorems, TLAPS

Trigger == [evt : Contexts \cup {Null}, client : Clients, err : BOOLEAN]
Call == [client : Clients, stage : {"owner", "socket", "end"}, err : BOOLEAN]

(***************************************************************************)
(* The inductive invariant, of the loop's data by itself ...               *)
(***************************************************************************)
LoopType(l) ==
  /\ l = [files |-> l.files, watch |-> l.watch, heap |-> l.heap,
          n_events |-> l.n_events, batch |-> l.batch]
  /\ DOMAIN l.files \subseteq Fds /\ \A fd \in DOMAIN l.files : l.files[fd] \in Clients
  /\ DOMAIN l.heap \subseteq Contexts
  /\ \A evt \in DOMAIN l.heap : l.heap[evt] \in [fd : Fds, client : Clients]
  /\ l.n_events \in Nat
  /\ l.batch \in Seq(Trigger)

\* What is watched is an open descriptor with a context of whoever opened it.
Watched(l) ==
  \A fd \in DOMAIN l.watch :
    /\ fd \in DOMAIN l.files /\ l.watch[fd] \in DOMAIN l.heap
    /\ l.heap[l.watch[fd]] = [fd |-> fd, client |-> l.files[fd]]

Counted(l) == l.n_events = 0 => DOMAIN l.watch = {}

NotDangling(l) ==
  \A i \in 1..Len(l.batch) :
    l.batch[i].evt # Null
      => /\ l.batch[i].evt \in DOMAIN l.heap
         /\ l.heap[l.batch[i].evt].client = l.batch[i].client

LoopInv(l) == LoopType(l) /\ Watched(l) /\ Counted(l) /\ NotDangling(l)

(***************************************************************************)
(* ... and of the loop with its clients.  An interface that has been       *)
(* deinitialized is broken for ever, so the context of one that is not is  *)
(* the one of its initialization, whoever deinitializes it.                *)
(***************************************************************************)
OwnContext(c) ==
  client[c].inited /\ ~client[c].broken
    => client[c].evt \in DOMAIN loop.heap /\ loop.heap[client[c].evt].client = c

ContextsOwned ==
  \A evt \in DOMAIN loop.heap :
    loop.heap[evt].client \in Intfs
      => client[loop.heap[evt].client].inited \/ client[loop.heap[evt].client].broken

CallOwned ==
  \A call \in calling :
    /\ call.client \in Intfs => client[call.client].inited \/ client[call.client].broken
    /\ call.client \in Events => call.stage = "owner" /\ ~call.err

OtherTypes ==
  /\ run \in {"idle", "running", "emptied", "crashed", "blocked"}
  /\ calling = {} \/ \E call \in Call : calling = {call}
  /\ client \in [Clients -> [inited : BOOLEAN, fd : Fds \cup {-1},
                             evt : Contexts \cup {Null}, broken : BOOLEAN]]
  /\ pending \in [Clients -> Nat]
  /\ \A c \in Clients : pending[c] <= IF c \in Events THEN 1 ELSE MaxFrames
  /\ gone \subseteq Intfs /\ owed \subseteq Events

Inv ==
  /\ LoopInv(loop) /\ OtherTypes
  /\ (\A c \in Clients : OwnContext(c)) /\ ContextsOwned /\ CallOwned

-------------------------------------------------------------------------------
\* The kernel's tables and the heap, one entry more or less.
LEMMA WithOneMore ==
  ASSUME NEW f, NEW x, NEW v
  PROVE  /\ DOMAIN With(f, x, v) = DOMAIN f \cup {x} /\ With(f, x, v)[x] = v
         /\ \A y \in DOMAIN f : y # x => With(f, x, v)[y] = f[y]
BY DEF With

\* A function without one element of its domain.
LEMMA WithoutOne ==
  ASSUME NEW f, NEW x
  PROVE  /\ DOMAIN Without(f, x) = DOMAIN f \ {x}
         /\ \A y \in DOMAIN f \ {x} : Without(f, x)[y] = f[y]
BY DEF Without

\* The loop's data with other tables of the kernel.
LEMMA TablesChanged ==
  ASSUME NEW l, NEW x, NEW y,
         l = [files |-> l.files, watch |-> l.watch, heap |-> l.heap,
              n_events |-> l.n_events, batch |-> l.batch]
  PROVE  [l EXCEPT !.files = x, !.watch = y]
           = [files |-> x, watch |-> y, heap |-> l.heap,
              n_events |-> l.n_events, batch |-> l.batch]
<1> DEFINE m == [l EXCEPT !.files = x]
<1>1. m = [files |-> x, watch |-> l.watch, heap |-> l.heap,
           n_events |-> l.n_events, batch |-> l.batch]
  OBVIOUS
<1>2. [l EXCEPT !.files = x, !.watch = y] = [m EXCEPT !.watch = y]
  OBVIOUS
<1> HIDE DEF m
<1>3. [m EXCEPT !.watch = y] = [files |-> x, watch |-> y, heap |-> l.heap,
                                n_events |-> l.n_events, batch |-> l.batch]
  BY <1>1
<1> QED
  BY <1>2, <1>3

\* close() leaves the heap and the batch alone.
LEMMA ClosedKeeps ==
  ASSUME NEW l, LoopInv(l), NEW fd
  PROVE  LoopInv(Closed(l, fd)) /\ Closed(l, fd).heap = l.heap
<1> DEFINE k == Closed(l, fd)
<1>0. l = [files |-> l.files, watch |-> l.watch, heap |-> l.heap,
           n_events |-> l.n_events, batch |-> l.batch]
  BY DEF LoopInv, LoopType
<1>1. k = [files |-> Without(l.files, fd), watch |-> Without(l.watch, fd), heap |-> l.heap,
           n_events |-> l.n_events, batch |-> l.batch]
  <2>1. [l EXCEPT !.files = Without(l.files, fd), !.watch = Without(l.watch, fd)]
          = [files |-> Without(l.files, fd), watch |-> Without(l.watch, fd), heap |-> l.heap,
             n_events |-> l.n_events, batch |-> l.batch]
    <3> DEFINE x == Without(l.files, fd)
               y == Without(l.watch, fd)
    <3> HIDE DEF x, y
    <3>1. [l EXCEPT !.files = x, !.watch = y]
            = [files |-> x, watch |-> y, heap |-> l.heap, n_events |-> l.n_events,
               batch |-> l.batch]
      BY <1>0, TablesChanged
    <3> QED
      BY <3>1 DEF x, y
  <2> QED
    BY <2>1 DEF Closed
<1>2. /\ k.files = Without(l.files, fd) /\ k.watch = Without(l.watch, fd) /\ k.heap = l.heap
      /\ k.n_events = l.n_events /\ k.batch = l.batch
  BY <1>1
<1> HIDE DEF k
<1>3. /\ DOMAIN k.files = DOMAIN l.files \ {fd} /\ DOMAIN k.watch = DOMAIN l.watch \ {fd}
      /\ \A y \in DOMAIN k.files : k.files[y] = l.files[y]
      /\ \A y \in DOMAIN k.watch : k.watch[y] = l.watch[y]
  BY <1>2 DEF Without
<1>4. LoopType(k)
  BY <1>1, <1>2, <1>3 DEF LoopInv, LoopType
<1>5. Watched(k)
  BY <1>2, <1>3 DEF LoopInv, Watched
<1>6. Counted(k) /\ NotDangling(k)
  BY <1>2, <1>3 DEF LoopInv, Counted, NotDangling
<1> QED
  BY <1>2, <1>4, <1>5, <1>6 DEF LoopInv, k

\* drop_event nulls what led to the context and nothing else.
LEMMA DroppedNulls ==
  ASSUME NEW batch \in Seq(Trigger), NEW evt
  PROVE  /\ Dropped(batch, evt) \in Seq(Trigger) /\ Len(Dropped(batch, evt)) = Len(batch)
         /\ \A i \in 1..Len(batch) :
              Dropped(batch, evt)[i] = IF batch[i].evt = evt THEN [batch[i] EXCEPT !.evt = Null]
                                                             ELSE batch[i]
<1>0. Len(batch) \in Nat /\ DOMAIN batch = 1..Len(batch)
  OBVIOUS
<1>1. ASSUME NEW i \in 1..Len(batch)
      PROVE  (IF batch[i].evt = evt THEN [batch[i] EXCEPT !.evt = Null] ELSE batch[i]) \in Trigger
  <2>1. batch[i] \in Trigger
    BY <1>1, ElementOfSeq
  <2> QED
    BY <2>1 DEF Trigger
<1>2. Dropped(batch, evt) \in [1..Len(batch) -> Trigger]
  BY <1>0, <1>1 DEF Dropped
<1>3. Dropped(batch, evt) \in Seq(Trigger) /\ Len(Dropped(batch, evt)) = Len(batch)
  BY <1>0, <1>2, SeqDef
<1> QED
  BY <1>0, <1>3 DEF Dropped

\* deregister_event: a context goes, and with it what the kernel and the batch
\* still had of it.
LEMMA DeregisteredKeeps ==
  ASSUME NEW l, LoopInv(l), NEW evt \in DOMAIN l.heap
  PROVE  /\ LoopInv(Deregistered(l, evt))
         /\ DOMAIN Deregistered(l, evt).heap \subseteq DOMAIN l.heap
         /\ DOMAIN l.heap \ {evt} \subseteq DOMAIN Deregistered(l, evt).heap
         /\ \A e \in DOMAIN Deregistered(l, evt).heap : Deregistered(l, evt).heap[e] = l.heap[e]
<1>1. CASE l.heap[evt].fd \notin DOMAIN l.watch
  <2>1. Deregistered(l, evt) = l
    BY <1>1 DEF Deregistered
  <2> QED
    BY <2>1
<1>2. CASE l.heap[evt].fd \in DOMAIN l.watch
  <2> DEFINE k == Deregistered(l, evt)
             fd == l.heap[evt].fd
  <2>1. k = [files |-> l.files, watch |-> Without(l.watch, fd), heap |-> Without(l.heap, evt),
             n_events |-> l.n_events, batch |-> Dropped(l.batch, evt)]
    BY <1>2 DEF LoopInv, LoopType, Deregistered
  <2>2. /\ k.files = l.files /\ k.watch = Without(l.watch, fd) /\ k.heap = Without(l.heap, evt)
        /\ k.n_events = l.n_events /\ k.batch = Dropped(l.batch, evt)
    BY <2>1
  <2> HIDE DEF k
  <2>3. /\ DOMAIN k.heap = DOMAIN l.heap \ {evt} /\ DOMAIN k.watch = DOMAIN l.watch \ {fd}
        /\ \A y \in DOMAIN k.heap : k.heap[y] = l.heap[y]
        /\ \A y \in DOMAIN k.watch : k.watch[y] = l.watch[y]
    BY <2>2 DEF Without
  <2>4. l.batch \in Seq(Trigger)
    BY DEF LoopInv, LoopType
  <2>5. LoopType(k)
    BY <2>1, <2>2, <2>3, <2>4, DroppedNulls DEF LoopInv, LoopType
  <2>6. Watched(k)
    <3>1. SUFFICES ASSUME NEW y \in DOMAIN k.watch
                   PROVE  /\ y \in DOMAIN k.files /\ k.watch[y] \in DOMAIN k.heap
                          /\ k.heap[k.watch[y]] = [fd |-> y, client |-> k.files[y]]
      BY DEF Watched
    <3>2. y \in DOMAIN l.watch /\ y # fd /\ k.watch[y] = l.watch[y]
      BY <2>3
    <3>3. /\ y \in DOMAIN l.files /\ l.watch[y] \in DOMAIN l.heap
          /\ l.heap[l.watch[y]] = [fd |-> y, client |-> l.files[y]]
      BY <3>2 DEF LoopInv, Watched
    <3>4. l.watch[y] # evt
      BY <3>2, <3>3
    <3> QED
      BY <2>2, <2>3, <3>2, <3>3, <3>4
  <2>7. Counted(k)
    BY <2>2, <2>3 DEF LoopInv, Counted
  <2>8. NotDangling(k)
    <3>1. SUFFICES ASSUME NEW i \in 1..Len(k.batch), k.batch[i].evt # Null
                   PROVE  /\ k.batch[i].evt \in DOMAIN k.heap
                          /\ k.heap[k.batch[i].evt].client = k.batch[i].client
      BY DEF NotDangling
    <3>2. i \in 1..Len(l.batch) /\ l.batch[i] \in Trigger
      BY <2>2, <2>4, DroppedNulls, ElementOfSeq
    <3>3. k.batch[i] = IF l.batch[i].evt = evt THEN [l.batch[i] EXCEPT !.evt = Null]
                                               ELSE l.batch[i]
      BY <2>2, <2>4, <3>2, DroppedNulls
    <3>4. l.batch[i].evt # evt
      <4>1. [l.batch[i] EXCEPT !.evt = Null].evt = Null
        BY <3>2 DEF Trigger
      <4> QED
        BY <3>1, <3>3, <4>1
    <3>5. k.batch[i] = l.batch[i]
      BY <3>3, <3>4
    <3> QED
      BY <2>3, <3>1, <3>2, <3>4, <3>5 DEF LoopInv, NotDangling
  <2> QED
    BY <2>3, <2>5, <2>6, <2>7, <2>8 DEF LoopInv, k
<1> QED
  BY <1>1, <1>2

\* register_event of a descriptor that has just been opened, in a new context.
LEMMA RegisteredKeeps ==
  ASSUME NEW l, LoopInv(l), NEW fd \in Fds \ DOMAIN l.files, NEW c \in Clients,
         NEW evt \in Contexts \ DOMAIN l.heap, NEW k,
         k = Registered([l EXCEPT !.files = With(@, fd, c)], fd, c, evt)
  PROVE  /\ LoopInv(k)
         /\ DOMAIN k.heap = DOMAIN l.heap \cup {evt} /\ k.heap[evt] = [fd |-> fd, client |-> c]
         /\ \A e \in DOMAIN l.heap : k.heap[e] = l.heap[e]
<1>1. k = [files |-> With(l.files, fd, c), watch |-> With(l.watch, fd, evt),
           heap |-> With(l.heap, evt, [fd |-> fd, client |-> c]),
           n_events |-> l.n_events + 1, batch |-> l.batch]
  BY DEF LoopInv, LoopType, Registered
<1>2. /\ k.files = With(l.files, fd, c) /\ k.watch = With(l.watch, fd, evt)
      /\ k.heap = With(l.heap, evt, [fd |-> fd, client |-> c])
      /\ k.n_events = l.n_events + 1 /\ k.batch = l.batch
  BY <1>1
<1>3. /\ DOMAIN k.files = DOMAIN l.files \cup {fd} /\ k.files[fd] = c
      /\ \A y \in DOMAIN l.files : k.files[y] = l.files[y]
      /\ DOMAIN k.heap = DOMAIN l.heap \cup {evt} /\ k.heap[evt] = [fd |-> fd, client |-> c]
      /\ \A y \in DOMAIN l.heap : k.heap[y] = l.heap[y]
      /\ DOMAIN k.watch = DOMAIN l.watch \cup {fd} /\ k.watch[fd] = evt
      /\ \A y \in DOMAIN l.watch : y # fd => k.watch[y] = l.watch[y]
  <2>1. fd \notin DOMAIN l.files /\ evt \notin DOMAIN l.heap
    OBVIOUS
  <2>2. /\ DOMAIN k.files = DOMAIN l.files \cup {fd} /\ k.files[fd] = c
        /\ \A y \in DOMAIN l.files : k.files[y] = l.files[y]
    BY <1>2, <2>1 DEF With
  <2>3. /\ DOMAIN k.heap = DOMAIN l.heap \cup {evt} /\ k.heap[evt] = [fd |-> fd, client |-> c]
        /\ \A y \in DOMAIN l.heap : k.heap[y] = l.heap[y]
    BY <1>2, <2>1 DEF With
  <2>4. /\ DOMAIN k.watch = DOMAIN l.watch \cup {fd} /\ k.watch[fd] = evt
        /\ \A y \in DOMAIN l.watch : y # fd => k.watch[y] = l.watch[y]
    BY <1>2 DEF With
  <2> QED
    BY <2>2, <2>3, <2>4
<1>4. LoopType(k)
  <2>1. \A y \in DOMAIN k.files : k.files[y] \in Clients
    BY <1>3 DEF LoopInv, LoopType
  <2>2. ASSUME NEW e \in DOMAIN k.heap PROVE k.heap[e] \in [fd : Fds, client : Clients]
    <3>1. CASE e = evt
      <4>1. k.heap[e] = [fd |-> fd, client |-> c]
        BY <1>3, <3>1
      <4> QED
        BY <4>1
    <3>2. CASE e \in DOMAIN l.heap
      BY <1>3, <3>2 DEF LoopInv, LoopType
    <3> QED
      BY <1>3, <2>2, <3>1, <3>2
  <2>3. DOMAIN k.files \subseteq Fds /\ DOMAIN k.heap \subseteq Contexts
    BY <1>3 DEF LoopInv, LoopType
  <2>4. k.n_events \in Nat /\ k.batch \in Seq(Trigger)
    BY <1>2 DEF LoopInv, LoopType
  <2> QED
    BY <1>1, <1>2, <2>1, <2>2, <2>3, <2>4 DEF LoopType
<1>5. Watched(k)
  <2>1. SUFFICES ASSUME NEW y \in DOMAIN k.watch
                 PROVE  /\ y \in DOMAIN k.files /\ k.watch[y] \in DOMAIN k.heap
                        /\ k.heap[k.watch[y]] = [fd |-> y, client |-> k.files[y]]
    BY DEF Watched
  <2>2. CASE y = fd
    BY <1>3, <2>2
  <2>3. CASE y # fd
    <3>1. y \in DOMAIN l.watch /\ k.watch[y] = l.watch[y]
      BY <1>3, <2>1, <2>3
    <3>2. /\ y \in DOMAIN l.files /\ l.watch[y] \in DOMAIN l.heap
          /\ l.heap[l.watch[y]] = [fd |-> y, client |-> l.files[y]]
      BY <3>1 DEF LoopInv, Watched
    <3> QED
      BY <1>3, <3>1, <3>2
  <2> QED
    BY <2>2, <2>3
<1>6. Counted(k)
  BY <1>2 DEF LoopInv, LoopType, Counted
<1>7. NotDangling(k)
  BY <1>2, <1>3 DEF LoopInv, NotDangling
<1> QED
  BY <1>3, <1>4, <1>5, <1>6, <1>7 DEF LoopInv

\* A loop that has worked through the first entry of its batch.
LEMMA AdvancedKeeps ==
  ASSUME LoopInv(loop), loop.batch # <<>>
  PROVE  /\ LoopInv(Advanced) /\ Advanced.heap = loop.heap
         /\ Entry \in Trigger
         /\ Entry.evt # Null => Target \in Clients /\ Target = loop.heap[Entry.evt].client
                                 /\ Entry.evt \in DOMAIN loop.heap
<1> DEFINE k == Advanced
<1>0. loop.batch \in Seq(Trigger)
  BY DEF LoopInv, LoopType
<1>1. k = [files |-> loop.files, watch |-> loop.watch, heap |-> loop.heap,
           n_events |-> loop.n_events, batch |-> Tail(loop.batch)]
  <2>1. loop = [files |-> loop.files, watch |-> loop.watch, heap |-> loop.heap,
                n_events |-> loop.n_events, batch |-> loop.batch]
    BY DEF LoopInv, LoopType
  <2> QED
    BY <2>1 DEF Advanced
<1>2. /\ k.files = loop.files /\ k.watch = loop.watch /\ k.heap = loop.heap
      /\ k.n_events = loop.n_events /\ k.batch = Tail(loop.batch)
  BY <1>1
<1>3. /\ Tail(loop.batch) \in Seq(Trigger) /\ Len(Tail(loop.batch)) = Len(loop.batch) - 1
      /\ \A i \in 1..Len(Tail(loop.batch)) : Tail(loop.batch)[i] = loop.batch[i + 1]
      /\ 1 \in 1..Len(loop.batch) /\ Entry = loop.batch[1]
  BY <1>0 DEF Entry
<1> HIDE DEF k
<1>4. LoopType(k) /\ Watched(k) /\ Counted(k)
  BY <1>1, <1>2, <1>3 DEF LoopInv, LoopType, Watched, Counted
<1>5. NotDangling(k)
  <2>1. \A i \in 1..Len(k.batch) : i + 1 \in 1..Len(loop.batch) /\ k.batch[i] = loop.batch[i + 1]
    BY <1>0, <1>2, <1>3
  <2> QED
    BY <1>2, <2>1 DEF LoopInv, NotDangling
<1>6. Entry \in Trigger
  BY <1>0, <1>3, ElementOfSeq
<1>7. Entry.evt # Null => Entry.evt \in DOMAIN loop.heap
  BY <1>3 DEF LoopInv, NotDangling
<1>8. Entry.evt # Null => Target \in Clients /\ Target = loop.heap[Entry.evt].client
  BY <1>7 DEF LoopInv, LoopType, Target
<1> QED
  BY <1>2, <1>4, <1>5, <1>6, <1>7, <1>8 DEF LoopInv, k

-------------------------------------------------------------------------------
\* What deinit() leaves: the loop in order and every other client's context.
LEMMA DeinitKeeps ==
  ASSUME Inv, NEW c \in Clients, client[c].inited \/ client[c].broken,
         NEW k, k = DeinitedLoop(c)
  PROVE  /\ LoopInv(k) /\ DOMAIN k.heap \subseteq DOMAIN loop.heap
         /\ \A e \in DOMAIN k.heap : k.heap[e] = loop.heap[e]
         /\ \A d \in Clients \ {c} : client[d].inited /\ ~client[d].broken
              => client[d].evt \in DOMAIN k.heap /\ k.heap[client[d].evt].client = d
<1>0. LoopInv(loop) /\ \A d \in Clients : OwnContext(d)
  BY DEF Inv
<1>1. CASE client[c].broken
  <2>1. k = Closed(loop, client[c].fd)
    BY <1>1 DEF DeinitedLoop
  <2>2. LoopInv(k) /\ k.heap = loop.heap
    BY <1>0, <2>1, ClosedKeeps
  <2> QED
    BY <1>0, <2>2 DEF OwnContext
<1>2. CASE ~client[c].broken
  <2> DEFINE evt == client[c].evt
             m == Deregistered(loop, evt)
  <2>1. evt \in DOMAIN loop.heap /\ loop.heap[evt].client = c
    BY <1>0, <1>2 DEF OwnContext
  <2>2. k = Closed(m, client[c].fd)
    BY <1>2 DEF DeinitedLoop
  <2> HIDE DEF evt
  <2>3. /\ LoopInv(m) /\ DOMAIN m.heap \subseteq DOMAIN loop.heap
        /\ DOMAIN loop.heap \ {evt} \subseteq DOMAIN m.heap
        /\ \A e \in DOMAIN m.heap : m.heap[e] = loop.heap[e]
    BY <1>0, <2>1, DeregisteredKeeps
  <2> HIDE DEF m
  <2>4. LoopInv(k) /\ k.heap = m.heap
    BY <2>2, <2>3, ClosedKeeps
  <2>5. ASSUME NEW d \in Clients \ {c}, client[d].inited, ~client[d].broken
        PROVE  client[d].evt \in DOMAIN k.heap /\ k.heap[client[d].evt].client = d
    <3>1. client[d].evt \in DOMAIN loop.heap /\ loop.heap[client[d].evt].client = d
      BY <1>0, <2>5 DEF OwnContext
    <3>2. client[d].evt # evt
      BY <2>1, <3>1
    <3> QED
      BY <2>3, <2>4, <3>1, <3>2
  <2> QED
    BY <2>3, <2>4, <2>5
<1> QED
  BY <1>1, <1>2

\* The loop's part of the invariant reads no variable but loop.
LEMMA PrimedLoop == LoopInv(loop)' <=> LoopInv(loop')
BY DEF LoopInv, LoopType, Watched, Counted, NotDangling

\* Steps that leave the loop's data and the clients alone.
LEMMA SameLoop ==
  ASSUME Inv, loop' = loop, client' = client, OtherTypes', CallOwned'
  PROVE  Inv'
BY PrimedLoop DEF Inv, OwnContext, ContextsOwned

\* Steps of the loop that leave heap and clients alone.
LEMMA SameHeap ==
  ASSUME Inv, LoopInv(loop'), loop'.heap = loop.heap, client' = client, OtherTypes', CallOwned'
  PROVE  Inv'
BY PrimedLoop DEF Inv, OwnContext, ContextsOwned

\* init() of a client registers a context nobody uses.
LEMMA InitStep ==
  ASSUME Inv, NEW c \in Clients, InitClient(c)
  PROVE  Inv'
<1>1. PICK fd \in Fds \ DOMAIN loop.files, evt \in Contexts \ DOMAIN loop.heap :
        /\ loop' = Registered([loop EXCEPT !.files = With(@, fd, c)], fd, c, evt)
        /\ client' = [client EXCEPT ![c].inited = TRUE, ![c].fd = fd, ![c].evt = evt]
  BY DEF InitClient
<1>2. /\ LoopInv(loop') /\ DOMAIN loop'.heap = DOMAIN loop.heap \cup {evt}
      /\ loop'.heap[evt] = [fd |-> fd, client |-> c]
      /\ \A e \in DOMAIN loop.heap : loop'.heap[e] = loop.heap[e]
  BY <1>1, RegisteredKeeps DEF Inv
<1>3. /\ client \in [Clients -> [inited : BOOLEAN, fd : Fds \cup {-1},
                                 evt : Contexts \cup {Null}, broken : BOOLEAN]]
  BY DEF Inv, OtherTypes
<1>4. /\ client' \in [Clients -> [inited : BOOLEAN, fd : Fds \cup {-1},
                                  evt : Contexts \cup {Null}, broken : BOOLEAN]]
      /\ client'[c].inited /\ client'[c].evt = evt /\ client'[c].broken = client[c].broken
      /\ \A d \in Clients : d # c => client'[d] = client[d]
  <2> DEFINE r == [client[c] EXCEPT !.inited = TRUE, !.fd = fd, !.evt = evt]
  <2>1. client[c] \in [inited : BOOLEAN, fd : Fds \cup {-1},
                       evt : Contexts \cup {Null}, broken : BOOLEAN]
    BY <1>3
  <2>2. /\ r \in [inited : BOOLEAN, fd : Fds \cup {-1},
                  evt : Contexts \cup {Null}, broken : BOOLEAN]
        /\ r.inited /\ r.evt = evt /\ r.broken = client[c].broken
    BY <2>1
  <2>3. client' = [client EXCEPT ![c] = r]
    BY <1>1, <1>3
  <2> HIDE DEF r
  <2> QED
    BY <1>3, <2>2, <2>3
<1>5. OtherTypes'
  <2>1. /\ pending' = [pending EXCEPT ![c] = 0] /\ gone' = gone \ {c} /\ owed' = owed \ {c}
        /\ run' = run /\ calling' = calling
    BY DEF InitClient
  <2>2. pending' \in [Clients -> Nat]
        /\ \A d \in Clients : pending'[d] <= IF d \in Events THEN 1 ELSE MaxFrames
    BY <2>1, LoopAssumption DEF Inv, OtherTypes
  <2> QED
    BY <1>4, <2>1, <2>2 DEF Inv, OtherTypes
<1>6. ASSUME NEW d \in Clients PROVE OwnContext(d)'
  <2>1. CASE d = c
    BY <1>2, <1>4, <2>1 DEF OwnContext
  <2>2. CASE d # c
    BY <1>2, <1>4, <2>2 DEF Inv, OwnContext
  <2> QED
    BY <2>1, <2>2
<1>7. ContextsOwned'
  <2>1. SUFFICES ASSUME NEW e \in DOMAIN loop'.heap, loop'.heap[e].client \in Intfs
                 PROVE  client'[loop'.heap[e].client].inited \/ client'[loop'.heap[e].client].broken
    BY DEF ContextsOwned
  <2>2. CASE e = evt
    BY <1>2, <1>4, <2>2
  <2>3. CASE e \in DOMAIN loop.heap
    <3>1. loop'.heap[e].client = loop.heap[e].client /\ loop.heap[e].client \in Clients
      BY <1>2, <2>3 DEF Inv, LoopInv, LoopType
    <3>2. client[loop.heap[e].client].inited \/ client[loop.heap[e].client].broken
      BY <2>1, <2>3, <3>1 DEF Inv, ContextsOwned
    <3> QED
      BY <1>4, <3>1, <3>2
  <2> QED
    BY <1>2, <2>1, <2>2, <2>3
<1>8. CallOwned'
  <2>1. calling' = calling /\ \A call \in calling : call.client \in Clients
    BY DEF InitClient, Inv, OtherTypes, Call
  <2> QED
    BY <1>4, <2>1 DEF Inv, CallOwned
<1> QED
  BY <1>2, <1>5, <1>6, <1>7, <1>8, PrimedLoop DEF Inv

\* A client that is deinitialized, by its owner or by itself.
LEMMA DeinitStep ==
  ASSUME Inv, NEW c \in Clients, client[c].inited \/ client[c].broken,
         loop' = DeinitedLoop(c), NEW d, client' = [client EXCEPT ![c] = d],
         d \in [inited : BOOLEAN, fd : Fds \cup {-1},
                evt : Contexts \cup {Null}, broken : BOOLEAN],
         ~d.inited \/ d.broken, c \in Intfs => d.broken, OtherTypes',
         calling' = calling \/ calling' = {}
  PROVE  Inv'
<1>1. /\ LoopInv(loop') /\ DOMAIN loop'.heap \subseteq DOMAIN loop.heap
      /\ \A e \in DOMAIN loop'.heap : loop'.heap[e] = loop.heap[e]
      /\ \A b \in Clients \ {c} : client[b].inited /\ ~client[b].broken
           => client[b].evt \in DOMAIN loop'.heap /\ loop'.heap[client[b].evt].client = b
  BY DeinitKeeps
<1>2. client'[c] = d /\ \A b \in Clients : b # c => client'[b] = client[b]
  BY DEF Inv, OtherTypes
<1>3. ASSUME NEW b \in Clients PROVE OwnContext(b)'
  BY <1>1, <1>2 DEF OwnContext
<1>4. ContextsOwned'
  <2>1. ASSUME NEW e \in DOMAIN loop'.heap
        PROVE  loop'.heap[e] = loop.heap[e] /\ e \in DOMAIN loop.heap
               /\ loop.heap[e].client \in Clients
    BY <1>1 DEF Inv, LoopInv, LoopType
  <2> QED
    BY <1>2, <2>1 DEF Inv, ContextsOwned
<1>5. CallOwned'
  <2>1. \A call \in calling : call.client \in Clients
    BY DEF Inv, OtherTypes, Call
  <2> QED
    BY <1>2, <2>1 DEF Inv, CallOwned
<1> QED
  BY <1>1, <1>3, <1>4, <1>5, PrimedLoop DEF Inv

\* A deinitialized client has its type, and an interface is broken.
LEMMA DeinitedIsClient ==
  ASSUME NEW c \in Clients, client[c] \in [inited : BOOLEAN, fd : Fds \cup {-1},
                                          evt : Contexts \cup {Null}, broken : BOOLEAN]
  PROVE  /\ DeinitedClient(c) \in [inited : BOOLEAN, fd : Fds \cup {-1},
                                   evt : Contexts \cup {Null}, broken : BOOLEAN]
         /\ c \in Intfs => DeinitedClient(c).broken
<1> DEFINE fd == IF c \in Events THEN -1 ELSE client[c].fd
           broken == c \in Intfs
<1>1. DeinitedClient(c) = [client[c] EXCEPT !.fd = fd, !.broken = broken]
  BY DEF DeinitedClient
<1>2. fd \in Fds \cup {-1} /\ broken \in BOOLEAN /\ (c \in Intfs => broken)
  OBVIOUS
<1> HIDE DEF fd, broken
<1> QED
  BY <1>1, <1>2

\* deinit() drops the client's context together with its triggered events.
LEMMA DeinitClientStep ==
  ASSUME Inv, NEW c \in Clients, DeinitClient(c)
  PROVE  Inv'
<1> DEFINE d == [DeinitedClient(c) EXCEPT !.inited = FALSE]
<1>1. client[c] \in [inited : BOOLEAN, fd : Fds \cup {-1},
                     evt : Contexts \cup {Null}, broken : BOOLEAN]
  BY DEF Inv, OtherTypes
<1>2. /\ d \in [inited : BOOLEAN, fd : Fds \cup {-1},
                evt : Contexts \cup {Null}, broken : BOOLEAN]
      /\ ~d.inited /\ (c \in Intfs => d.broken)
  BY <1>1, DeinitedIsClient
<1>3. /\ client[c].inited /\ loop' = DeinitedLoop(c) /\ client' = [client EXCEPT ![c] = d]
      /\ owed' = owed \ {c} /\ run' = run /\ calling' = calling /\ pending' = pending
      /\ gone' = gone
  BY DEF DeinitClient
<1> HIDE DEF d
<1>4. OtherTypes'
  <2>1. client' \in [Clients -> [inited : BOOLEAN, fd : Fds \cup {-1},
                                evt : Contexts \cup {Null}, broken : BOOLEAN]]
    BY <1>2, <1>3 DEF Inv, OtherTypes
  <2> QED
    BY <1>3, <2>1 DEF Inv, OtherTypes
<1> QED
  BY <1>2, <1>3, <1>4, DeinitStep

\* A file belongs to a client, and there are finitely many.
LEMMA FilesAreClients ==
  ASSUME Inv, NEW c \in Clients
  PROVE  FileOf(c) \subseteq Clients
BY DEF Inv, LoopInv, LoopType, FileOf

\* Only finitely many contexts are watched.
LEMMA WatchedAreFinite ==
  ASSUME Inv, NEW ready \in SUBSET DOMAIN loop.watch
  PROVE  IsFiniteSet(ready) /\ Cardinality(ready) \in Nat
<1>1. ready \subseteq 1..MaxFd
  BY DEF Inv, LoopInv, LoopType, Watched, Fds
<1>2. IsFiniteSet(1..MaxFd)
  BY LoopAssumption, FS_Interval
<1> QED
  BY <1>1, <1>2, FS_Subset, FS_CardinalityType

\* What epoll_wait reports leads to whom it is for.
LEMMA WaitStep ==
  ASSUME Inv, Wait
  PROVE  Inv'
<1>1. PICK ready \in SUBSET {fd \in DOMAIN loop.watch : Ready(fd)} \ {{}} :
        \E order \in SetToSeqs(ready) :
          loop' = [loop EXCEPT !.batch =
            [i \in DOMAIN order |->
               [evt |-> loop.watch[order[i]], client |-> loop.heap[loop.watch[order[i]]].client,
                err |-> loop.files[order[i]] \in gone]]]
  BY DEF Wait
<1>2. PICK order \in SetToSeqs(ready) :
        loop' = [loop EXCEPT !.batch =
          [i \in DOMAIN order |->
             [evt |-> loop.watch[order[i]], client |-> loop.heap[loop.watch[order[i]]].client,
              err |-> loop.files[order[i]] \in gone]]]
  BY <1>1
<1> DEFINE n == Cardinality(ready)
           batch == [i \in DOMAIN order |->
             [evt |-> loop.watch[order[i]], client |-> loop.heap[loop.watch[order[i]]].client,
              err |-> loop.files[order[i]] \in gone]]
<1>3. n \in Nat /\ ready \subseteq DOMAIN loop.watch
  BY <1>1, WatchedAreFinite
<1>4. DOMAIN order = 1..n /\ \A i \in 1..n : order[i] \in ready
  BY <1>2 DEF SetToSeqs
<1>5. ASSUME NEW i \in 1..n
      PROVE  /\ batch[i] \in Trigger /\ batch[i].evt \in DOMAIN loop.heap
             /\ loop.heap[batch[i].evt].client = batch[i].client
  <2>1. /\ order[i] \in DOMAIN loop.watch
        /\ loop.watch[order[i]] \in DOMAIN loop.heap
        /\ loop.watch[order[i]] \in Contexts
        /\ loop.heap[loop.watch[order[i]]].client \in Clients
    BY <1>3, <1>4 DEF Inv, LoopInv, LoopType, Watched
  <2> DEFINE err == loop.files[order[i]] \in gone
  <2>2. err \in BOOLEAN
    OBVIOUS
  <2>3. batch[i] = [evt |-> loop.watch[order[i]],
                    client |-> loop.heap[loop.watch[order[i]]].client, err |-> err]
    BY <1>4
  <2> HIDE DEF err, batch
  <2> QED
    BY <2>1, <2>2, <2>3 DEF Trigger
<1>6. loop' = [loop EXCEPT !.batch = batch]
  BY <1>2
<1>7. batch = [i \in 1..n |-> batch[i]]
  BY <1>4
<1> HIDE DEF n, batch
<1>8. batch \in Seq(Trigger) /\ Len(batch) = n
  <2>1. batch \in [1..n -> Trigger]
    BY <1>5, <1>7
  <2> QED
    BY <1>3, <2>1, SeqDef
<1>9. loop' = [files |-> loop.files, watch |-> loop.watch, heap |-> loop.heap,
               n_events |-> loop.n_events, batch |-> batch]
  BY <1>6 DEF Inv, LoopInv, LoopType
<1>10. /\ loop'.files = loop.files /\ loop'.watch = loop.watch /\ loop'.heap = loop.heap
       /\ loop'.n_events = loop.n_events /\ loop'.batch = batch
  BY <1>9
<1>11. LoopType(loop') /\ Watched(loop') /\ Counted(loop')
  BY <1>8, <1>9, <1>10 DEF Inv, LoopInv, LoopType, Watched, Counted
<1>12. NotDangling(loop')
  BY <1>5, <1>8, <1>10 DEF NotDangling
<1>13. OtherTypes' /\ CallOwned' /\ client' = client
  BY DEF Wait, Inv, OtherTypes, CallOwned
<1> QED
  BY <1>10, <1>11, <1>12, <1>13, SameHeap DEF LoopInv

\* Events, frames and the owner's code between the callbacks.
LEMMA OutsideStep ==
  ASSUME Inv, \/ \E c \in Events : Set(c)
              \/ \E c \in Intfs : FrameArrives(c) \/ Disappears(c)
              \/ Start \/ ReturnEmpty \/ ReturnFailed \/ DispatchNull
  PROVE  Inv'
<1>0. OtherTypes /\ CallOwned
  BY DEF Inv
<1>1. CASE \E c \in Events : Set(c)
  <2>1. PICK c \in Events : Set(c)
    BY <1>1
  <2>2. PICK file \in FileOf(c) \cap Events :
          /\ pending' = [pending EXCEPT ![file] = 1] /\ owed' = owed \cup {c}
          /\ UNCHANGED <<loop, run, calling, client, gone>>
    BY <2>1 DEF Set
  <2>3. OtherTypes'
    BY <1>0, <2>2 DEF OtherTypes, Clients
  <2> QED
    BY <1>0, <2>2, <2>3, SameLoop DEF CallOwned
<1>2. CASE \E c \in Intfs : FrameArrives(c)
  <2>1. PICK c \in Intfs : FrameArrives(c)
    BY <1>2
  <2>2. c \in Clients /\ c \notin Events /\ MaxFrames \in Nat
    BY LoopAssumption DEF Clients
  <2>3. pending' \in [Clients -> Nat]
        /\ \A d \in Clients : pending'[d] <= IF d \in Events THEN 1 ELSE MaxFrames
    BY <1>0, <2>1, <2>2 DEF FrameArrives, OtherTypes
  <2>4. OtherTypes'
    BY <1>0, <2>1, <2>3 DEF FrameArrives, OtherTypes
  <2> QED
    BY <1>0, <2>1, <2>4, SameLoop DEF FrameArrives, CallOwned
<1>3. CASE \E c \in Intfs : Disappears(c)
  <2>1. OtherTypes' /\ CallOwned' /\ loop' = loop /\ client' = client
    BY <1>0, <1>3 DEF Disappears, OtherTypes, CallOwned
  <2> QED
    BY <2>1, SameLoop
<1>4. CASE Start \/ ReturnEmpty \/ ReturnFailed \/ DispatchNull
  <2>1. OtherTypes' /\ CallOwned' /\ loop' = loop /\ client' = client
    BY <1>0, <1>4 DEF Start, ReturnEmpty, ReturnFailed, DispatchNull, OtherTypes, CallOwned
  <2> QED
    BY <2>1, SameLoop
<1> QED
  BY <1>1, <1>2, <1>3, <1>4

\* An entry of the batch is worked through.
LEMMA DispatchStep ==
  ASSUME Inv, DispatchEvent \/ DispatchEventFails \/ DispatchEventBlocks \/ DispatchIntf
  PROVE  Inv'
<1>0. OtherTypes /\ CallOwned /\ LoopInv(loop) /\ loop.batch # <<>> /\ Entry.evt # Null
      /\ loop' = Advanced /\ client' = client
  BY DEF Inv, DispatchEvent, DispatchEventFails, DispatchEventBlocks, DispatchIntf, Arrived
<1>1. /\ LoopInv(loop') /\ loop'.heap = loop.heap /\ Entry \in Trigger
      /\ Target \in Clients /\ Target = loop.heap[Entry.evt].client
      /\ Entry.evt \in DOMAIN loop.heap
  BY <1>0, AdvancedKeeps
<1>2. CASE DispatchEvent
  <2>1. PICK file \in FileOf(Target) :
          /\ pending[file] > 0
          /\ pending' = [pending EXCEPT ![file] = IF file \in Events THEN 0 ELSE @ - 1]
    BY <1>2 DEF DispatchEvent, ReadsFirst
  <2>2. file \in Clients
    BY <1>1, FilesAreClients
  <2>3. calling' = {[client |-> Target, stage |-> "owner", err |-> FALSE]}
        /\ Target \in Events /\ Target \notin Intfs
    BY <1>2, LoopAssumption DEF DispatchEvent
  <2>4. [client |-> Target, stage |-> "owner", err |-> FALSE] \in Call
    BY <1>1 DEF Call
  <2>5. pending' \in [Clients -> Nat]
        /\ \A d \in Clients : pending'[d] <= IF d \in Events THEN 1 ELSE MaxFrames
    BY <1>0, <2>1, <2>2, LoopAssumption DEF OtherTypes
  <2>6. OtherTypes'
    BY <1>0, <1>2, <2>1, <2>3, <2>4, <2>5 DEF DispatchEvent, OtherTypes
  <2>7. CallOwned'
    BY <2>3 DEF CallOwned
  <2> QED
    BY <1>0, <1>1, <2>6, <2>7, SameHeap
<1>3. CASE DispatchEventFails \/ DispatchEventBlocks
  <2>1. OtherTypes' /\ CallOwned'
    BY <1>0, <1>3 DEF DispatchEventFails, DispatchEventBlocks, OtherTypes, CallOwned
  <2> QED
    BY <1>0, <1>1, <2>1, SameHeap
<1>4. CASE DispatchIntf
  <2>1. /\ calling' = {[client |-> Target, stage |-> "socket", err |-> Entry.err]}
        /\ Target \in Intfs /\ Target \notin Events
    BY <1>4, LoopAssumption DEF DispatchIntf
  <2>2. [client |-> Target, stage |-> "socket", err |-> Entry.err] \in Call
    BY <1>1 DEF Call, Trigger
  <2>3. OtherTypes'
    BY <1>0, <1>4, <2>1, <2>2 DEF DispatchIntf, OtherTypes
  <2>4. client[Target].inited \/ client[Target].broken
    BY <1>1, <2>1 DEF Inv, ContextsOwned
  <2>5. CallOwned'
    BY <1>0, <2>1, <2>4 DEF CallOwned
  <2> QED
    BY <1>0, <1>1, <2>3, <2>5, SameHeap
<1> QED
  BY <1>2, <1>3, <1>4

\* A callback goes on.
LEMMA CallbackStep ==
  ASSUME Inv, ReadFrame \/ OwnerReturns \/ SocketEventEnds
  PROVE  Inv'
<1>0. OtherTypes /\ CallOwned
  BY DEF Inv
<1>1. PICK call \in Call : calling = {call}
  BY <1>0 DEF ReadFrame, OwnerReturns, SocketEventEnds, OtherTypes
<1>2. /\ call.client \in Clients
      /\ call.client \in Intfs => client[call.client].inited \/ client[call.client].broken
      /\ call.client \in Events => call.stage = "owner" /\ ~call.err
  BY <1>0, <1>1 DEF CallOwned, Call
<1>3. CASE ReadFrame
  <2>1. PICK file \in FileOf(call.client) \cap Intfs :
          /\ call.stage = "socket" /\ pending[file] > 0
          /\ pending' = [pending EXCEPT ![file] = @ - 1]
          /\ calling' = {[call EXCEPT !.stage = "owner"]}
          /\ UNCHANGED <<loop, run, client, gone, owed>>
    BY <1>1, <1>3 DEF ReadFrame
  <2>2. file \in Clients
    BY <1>2, FilesAreClients
  <2>3. /\ [call EXCEPT !.stage = "owner"] \in Call
        /\ [call EXCEPT !.stage = "owner"].client = call.client
        /\ [call EXCEPT !.stage = "owner"].stage = "owner"
        /\ [call EXCEPT !.stage = "owner"].err = call.err
    BY DEF Call
  <2>4. pending' \in [Clients -> Nat]
        /\ \A d \in Clients : pending'[d] <= IF d \in Events THEN 1 ELSE MaxFrames
    BY <1>0, <2>1, <2>2, LoopAssumption DEF OtherTypes
  <2>5. OtherTypes'
    BY <1>0, <2>1, <2>3, <2>4 DEF OtherTypes
  <2>6. CallOwned'
    BY <1>2, <2>1, <2>3 DEF CallOwned
  <2> QED
    BY <2>1, <2>5, <2>6, SameLoop
<1>4. CASE OwnerReturns
  <2>1. /\ pending' = pending /\ UNCHANGED <<loop, run, client, gone, owed>>
        /\ calling' = IF call.client \in Events THEN {}
                      ELSE {[call EXCEPT !.stage = IF client[call.client].broken
                                                   THEN "end" ELSE "socket"]}
    BY <1>1, <1>4 DEF OwnerReturns, ReadsFirst
  <2>2. CASE call.client \in Events
    <3>1. calling' = {}
      BY <2>1, <2>2
    <3>2. OtherTypes' /\ CallOwned'
      BY <1>0, <2>1, <3>1 DEF OtherTypes, CallOwned
    <3> QED
      BY <2>1, <3>2, SameLoop
  <2>3. CASE call.client \notin Events
    <3>1. PICK stage \in {"end", "socket"} : calling' = {[call EXCEPT !.stage = stage]}
      BY <2>1, <2>3
    <3>2. /\ [call EXCEPT !.stage = stage] \in Call
          /\ [call EXCEPT !.stage = stage].client = call.client
      BY DEF Call
    <3>3. OtherTypes'
      BY <1>0, <2>1, <3>1, <3>2 DEF OtherTypes
    <3>4. CallOwned'
      BY <1>2, <2>1, <2>3, <3>1, <3>2 DEF CallOwned
    <3> QED
      BY <2>1, <3>3, <3>4, SameLoop
  <2> QED
    BY <2>2, <2>3
<1>5. CASE SocketEventEnds
  <2>1. /\ calling' = {} /\ UNCHANGED <<run, pending, gone, owed>>
        /\ IF call.err
           THEN /\ loop' = DeinitedLoop(call.client)
                /\ client' = [client EXCEPT ![call.client] = DeinitedClient(call.client)]
           ELSE UNCHANGED <<loop, client>>
    BY <1>1, <1>5 DEF SocketEventEnds
  <2>2. CASE ~call.err
    <3>1. OtherTypes' /\ CallOwned'
      BY <1>0, <2>1, <2>2 DEF OtherTypes, CallOwned
    <3> QED
      BY <2>1, <2>2, <3>1, SameLoop
  <2>3. CASE call.err
    <3>1. call.client \in Intfs
      BY <1>2, <2>3 DEF Clients
    <3>2. DeinitedClient(call.client) \in [inited : BOOLEAN, fd : Fds \cup {-1},
                                          evt : Contexts \cup {Null}, broken : BOOLEAN]
          /\ DeinitedClient(call.client).broken
      BY <1>0, <1>2, <3>1, DeinitedIsClient DEF OtherTypes
    <3>3. OtherTypes'
      BY <1>0, <2>1, <2>3, <3>2 DEF OtherTypes
    <3> QED
      BY <1>2, <2>1, <2>3, <3>1, <3>2, <3>3, DeinitStep
  <2> QED
    BY <2>2, <2>3
<1> QED
  BY <1>3, <1>4, <1>5

-------------------------------------------------------------------------------
\* Nothing is registered at the start.
LEMMA InvInit == Init => Inv
<1> SUFFICES ASSUME Init PROVE Inv
  OBVIOUS
<1>1. loop = [files |-> <<>>, watch |-> <<>>, heap |-> <<>>, n_events |-> 0, batch |-> <<>>]
  BY DEF Init
<1>2. DOMAIN <<>> = {} /\ <<>> \in Seq(Trigger) /\ Len(<<>>) = 0
  OBVIOUS
<1>3. LoopInv(loop)
  BY <1>1, <1>2 DEF LoopInv, LoopType, Watched, Counted, NotDangling
<1>4. OtherTypes
  <2>1. client = [c \in Clients |-> [inited |-> FALSE, fd |-> -1, evt |-> Null, broken |-> FALSE]]
    BY DEF Init
  <2>2. client \in [Clients -> [inited : BOOLEAN, fd : Fds \cup {-1},
                               evt : Contexts \cup {Null}, broken : BOOLEAN]]
    BY <2>1
  <2> QED
    BY <2>2, LoopAssumption DEF Init, OtherTypes
<1>5. (\A c \in Clients : OwnContext(c)) /\ ContextsOwned /\ CallOwned
  BY <1>1, <1>2 DEF Init, OwnContext, ContextsOwned, CallOwned
<1> QED
  BY <1>3, <1>4, <1>5 DEF Inv

\* The invariant survives every step.
LEMMA InvStep == Inv /\ [Next]_vars => Inv'
<1> SUFFICES ASSUME Inv, [Next]_vars PROVE Inv'
  OBVIOUS
<1>1. CASE \E c \in Clients : InitClient(c) \/ DeinitClient(c)
  BY <1>1, InitStep, DeinitClientStep
<1>2. CASE UNCHANGED vars
  <2>1. OtherTypes' /\ CallOwned' /\ loop' = loop /\ client' = client
    BY <1>2 DEF vars, Inv, OtherTypes, CallOwned
  <2> QED
    BY <2>1, SameLoop
<1> QED
  BY <1>1, <1>2, WaitStep, OutsideStep, DispatchStep, CallbackStep DEF Next

\* What the kernel watches, the heap holds and the batch names fits together in
\* every state, whoever initializes and deinitializes clients when.
THEOREM InvInvariant == Spec => []Inv
<1> QED
  BY InvInit, InvStep, PTL DEF Spec

\* Every variable has its type.
THEOREM TypeCorrect == Spec => []TypeOK
<1>1. ASSUME Inv PROVE TypeOK
  <2>1. Cardinality(calling) <= 1
    <3>1. calling = {} \/ \E call \in Call : calling = {call}
      BY <1>1 DEF Inv, OtherTypes
    <3>2. CASE calling = {}
      BY <3>2, FS_EmptySet
    <3>3. ASSUME NEW call, calling = {call} PROVE Cardinality(calling) <= 1
      <4>1. Cardinality({call}) = 1
        BY FS_Singleton
      <4> QED
        BY <3>3, <4>1
    <3> QED
      BY <3>1, <3>2, <3>3
  <2>2. \A c \in Clients : pending[c] \in 0..(IF c \in Events THEN 1 ELSE MaxFrames)
    BY <1>1, LoopAssumption DEF Inv, OtherTypes
  <2> QED
    BY <1>1, <2>1, <2>2
    DEF Inv, LoopInv, LoopType, Watched, OtherTypes, OwnContext, TypeOK
<1> QED
  BY <1>1, InvInvariant, PTL

\* A triggered event is null or leads to the client it was triggered for.
THEOREM NoTriggerDangles == Spec => []NoDanglingTrigger
<1>1. ASSUME Inv PROVE NoDanglingTrigger
  <2>1. DOMAIN loop.batch = 1..Len(loop.batch)
    BY <1>1 DEF Inv, LoopInv, LoopType
  <2> QED
    BY <1>1, <2>1 DEF Inv, LoopInv, NotDangling, NoDanglingTrigger
<1> QED
  BY <1>1, InvInvariant, PTL

\* The loop returns true only when nothing is watched any more.
THEOREM NobodyIsLeftBehind == Spec => LoopLeavesNobodyBehind
<1>1. Inv /\ [Next]_vars =>
        [run = "running" /\ run' = "emptied" => DOMAIN loop.watch = {}]_vars
  <2> SUFFICES ASSUME Inv, [Next]_vars, run = "running", run' = "emptied"
               PROVE  DOMAIN loop.watch = {}
    OBVIOUS
  <2>1. ReturnEmpty
    BY DEF Next, vars, InitClient, DeinitClient, Set, FrameArrives, Disappears, Start,
       ReturnFailed, Wait, DispatchNull, DispatchEvent, DispatchEventFails,
       DispatchEventBlocks, DispatchIntf, ReadFrame, OwnerReturns, SocketEventEnds
  <2> QED
    BY <2>1 DEF ReturnEmpty, Inv, LoopInv, Counted
<1> QED
  BY <1>1, InvInvariant, PTL DEF Spec, LoopLeavesNobodyBehind

===============================================================================
