--------------------------- MODULE MServerSafety ---------------------------
(***************************************************************************)
(* Safety of MServer, for every number of slots and every limit.  The slots  *)
(* that are free, the watch on the PTY and the input runs depend on one      *)
(* another: a client that attaches inherits what the last one left in the    *)
(* slot, so that neither backpressure nor the ownership of typed input can   *)
(* be shown without FreeSlotsClean.  SlotInv is their conjunction.           *)
(***************************************************************************)
EXTENDS MServerProofs

SlotInv ==
    TypeInv /\ FreeSlotsClean /\ BackpressureEngages /\ InputOwned

\* What FreeSlotsClean and InputOwned say of one slot.
SlotOK(c) ==
    /\ ~ c.fd => /\ c.pend = 0 /\ ~ c.paused /\ ~ c.hiwater
                 /\ ~ c.inrun /\ c.inq = <<>>
    /\ \A n \in DOMAIN c.inq : c.fd /\ c.inq[n] = c.id

\* d has the connection, the backlog, the pause and the input run of c.
SameFlow(c, d) ==
    /\ d.fd = c.fd /\ d.id = c.id /\ d.pend = c.pend /\ d.paused = c.paused
    /\ d.hiwater = c.hiwater /\ d.inrun = c.inrun /\ d.inq = c.inq

LEMMA SlotsOK ==
    (FreeSlotsClean /\ \A s \in Slots : \A n \in DOMAIN clients[s].inq :
         clients[s].fd /\ clients[s].inq[n] = clients[s].id)
    <=> \A s \in Slots : SlotOK(clients[s])
BY DEF FreeSlotsClean, SlotOK, Blocked

LEMMA SameSlotOK ==
    ASSUME NEW c \in ClientRecords, NEW d \in ClientRecords, SlotOK(c),
           SameFlow(c, d)
    PROVE  SlotOK(d)
BY DEF SameFlow, SlotOK

\* What the operations on a client leave in its record.
LEMMA FlowFields ==
    ASSUME NEW c \in ClientRecords
    PROVE  /\ \A r \in Roles : SameFlow(c, [c EXCEPT !.role = r])
           /\ \A f \in SUBSET Flags, r \in Roles :
                 SameFlow(c, [c EXCEPT !.flags = f, !.role = r])
           /\ SameFlow(c, [c EXCEPT !.ready = TRUE])
           /\ \A n \in Nat : SameFlow(c, [c EXCEPT !.rows = n])
BY DEF SameFlow, ClientRecords

LEMMA QueuedFields ==
    ASSUME NEW c \in ClientRecords
    PROVE  /\ Queued(c).fd = c.fd /\ Queued(c).id = c.id
           /\ Queued(c).paused = c.paused /\ Queued(c).inrun = c.inrun
           /\ Queued(c).inq = c.inq
           /\ \A k : /\ Flushed(c, k).fd = c.fd /\ Flushed(c, k).id = c.id
                     /\ Flushed(c, k).paused = c.paused
                     /\ Flushed(c, k).inrun = c.inrun
                     /\ Flushed(c, k).inq = c.inq
BY DEF Queued, Flushed, ClientRecords

LEMMA ClearedOK ==
    ASSUME NEW c \in ClientRecords
    PROVE  SlotOK(Cleared(c)) /\ ~ Cleared(c).fd
<1>1. /\ Cleared(c).pend = 0 /\ ~ Cleared(c).paused /\ ~ Cleared(c).hiwater
      /\ ~ Cleared(c).inrun /\ Cleared(c).inq = <<>> /\ ~ Cleared(c).fd
  BY DEF Cleared, ClientRecords
<1>2. \A n \in DOMAIN Cleared(c).inq : FALSE
  BY <1>1
<1>3. QED
  BY <1>1, <1>2 DEF SlotOK

\* A step that leaves the connections, pauses and water marks alone.
LEMMA KeepBackpressure ==
    ASSUME BackpressureEngages, mread' = mread,
           \A s \in Slots : /\ clients'[s].fd = clients[s].fd
                            /\ clients'[s].paused = clients[s].paused
                            /\ clients'[s].hiwater = clients[s].hiwater
    PROVE  BackpressureEngages'
BY DEF BackpressureEngages, Live, Blocked

LEMMA Reevaluated ==
    ASSUME mread' = update_master_interest(clients')
    PROVE  BackpressureEngages'
BY Zenon DEF BackpressureEngages, update_master_interest

\* Steps that change no connection, queue, pause or run.
LEMMA SameStep ==
    ASSUME SlotInv, TypeInv', mread' = mread, typed' = typed,
           \A s \in Slots : SameFlow(clients[s], clients'[s])
    PROVE  SlotInv'
<1>1. clients \in [Slots -> ClientRecords] /\ clients' \in [Slots -> ClientRecords]
  BY DEF SlotInv, TypeInv, TypeOK
<1>2. \A s \in Slots : SlotOK(clients[s])
  BY SlotsOK DEF SlotInv, InputOwned
<1>3. \A s \in Slots : SlotOK(clients'[s])
  BY <1>1, <1>2, SameSlotOK
<1>4. FreeSlotsClean' /\ InputOwned'
  BY <1>3 DEF SlotInv, InputOwned, FreeSlotsClean, SlotOK, Blocked
<1>5. BackpressureEngages'
  BY KeepBackpressure DEF SlotInv, SameFlow
<1>6. QED
  BY <1>4, <1>5 DEF SlotInv

\* One slot changes, to a record that is in order; the watch on the PTY is
\* evaluated again or the slot is as connected and as blocked as before.
LEMMA OneSlot ==
    ASSUME SlotInv, TypeInv', NEW s \in Slots, NEW c \in ClientRecords,
           clients' = [clients EXCEPT ![s] = c], SlotOK(c),
           \/ mread' = update_master_interest(clients')
           \/ /\ mread' = mread /\ c.fd = clients[s].fd
              /\ c.paused = clients[s].paused /\ c.hiwater = clients[s].hiwater,
           \A m, n \in DOMAIN typed' : typed'[m] = typed'[n]
    PROVE  SlotInv'
<1>1. clients \in [Slots -> ClientRecords] /\ \A t \in Slots : SlotOK(clients[t])
  BY SlotsOK DEF SlotInv, InputOwned, TypeInv, TypeOK
<1>2. \A t \in Slots : clients'[t] = IF t = s THEN c ELSE clients[t]
  BY <1>1
<1>3. \A t \in Slots : SlotOK(clients'[t])
  BY <1>1, <1>2
<1>4. FreeSlotsClean' /\ InputOwned'
  BY <1>3 DEF InputOwned, FreeSlotsClean, SlotOK, Blocked
<1>5. BackpressureEngages'
  <2>1. CASE mread' = update_master_interest(clients')
    BY <2>1, Reevaluated
  <2>2. CASE /\ mread' = mread /\ c.fd = clients[s].fd
             /\ c.paused = clients[s].paused /\ c.hiwater = clients[s].hiwater
    BY <1>2, <2>2, KeepBackpressure DEF SlotInv
  <2>3. QED
    BY <2>1, <2>2
<1>6. QED
  BY <1>4, <1>5 DEF SlotInv

LEMMA EnqueueSafe ==
    ASSUME SlotInv, TypeInv', stack # <<>>, Enqueue
    PROVE  SlotInv'
<1> DEFINE s == Min(Top.to)
<1>1. clients \in [Slots -> ClientRecords] /\ stack \in Seq(Frames)
  BY DEF SlotInv, TypeInv, TypeOK
<1>2. s \in Slots
  <2>1. Top \in Frames /\ Top.op = "enqueue"
    BY <1>1, TopFrame DEF Enqueue
  <2>2. Top.to \in SUBSET Slots /\ Top.to # {}
    BY <2>1, FrameFields
  <2>3. QED
    BY <2>2, PickSlot
<1>3. EnqueueTo(s) /\ typed' = typed
  BY DEF Enqueue, tty
<1> HIDE DEF s
<1>4. clients[s] \in ClientRecords /\ SlotOK(clients[s])
  BY <1>1, <1>2, SlotsOK DEF SlotInv, InputOwned
<1>5. CASE UNCHANGED <<clients, mread>>
  BY <1>3, <1>5, SameStep DEF SameFlow
<1>6. ASSUME clients[s].fd, ~ OverLimit(clients[s]), NEW c, NEW calls,
             QueueTo(s, c, calls),
             \/ c = Queued(clients[s])
             \/ \E k \in 0..(clients[s].pend + 1) :
                    c = Flushed(Queued(clients[s]), k)
      PROVE  SlotInv'
  <2>1. Queued(clients[s]) \in ClientRecords
    BY <1>4, <1>6, ClientTypes
  <2>2. /\ c.fd = clients[s].fd /\ c.id = clients[s].id
        /\ c.paused = clients[s].paused /\ c.inq = clients[s].inq
    <3> DEFINE q == Queued(clients[s])
    <3>1. /\ q.fd = clients[s].fd /\ q.id = clients[s].id
          /\ q.paused = clients[s].paused /\ q.inq = clients[s].inq
      BY <1>4, QueuedFields
    <3>2. \A k : /\ Flushed(q, k).fd = q.fd /\ Flushed(q, k).id = q.id
                 /\ Flushed(q, k).paused = q.paused /\ Flushed(q, k).inq = q.inq
      BY <2>1, QueuedFields
    <3>3. c = q \/ \E k : c = Flushed(q, k)
      BY <1>6
    <3> HIDE DEF q
    <3>4. QED
      BY <3>1, <3>2, <3>3, Zenon
  <2>3. c \in ClientRecords
    <3>1. Queued(clients[s]).pend = clients[s].pend + 1
      BY <1>4 DEF Queued, ClientRecords
    <3>2. QED
      BY <1>6, <2>1, <3>1, ClientTypes
  <2>4. SlotOK(c)
    BY <1>4, <1>6, <2>2, Zenon DEF SlotOK
  <2>5. /\ clients' = [clients EXCEPT ![s] = c]
        /\ \/ mread' = update_master_interest(clients')
           \/ mread' = mread /\ c.hiwater = clients[s].hiwater
    BY <1>6 DEF QueueTo
  <2>6. \A m, n \in DOMAIN typed' : typed'[m] = typed'[n]
    BY <1>3 DEF SlotInv, InputOwned
  <2>7. QED
    BY <1>2, <2>2, <2>3, <2>4, <2>5, <2>6, OneSlot, Zenon
<1>7. QED
  BY <1>3, <1>5, <1>6 DEF EnqueueTo

LEMMA CloseSafe ==
    ASSUME SlotInv, TypeInv', stack # <<>>, Close
    PROVE  SlotInv'
<1> DEFINE s == Top.s
           left == [clients EXCEPT ![s] = Cleared(clients[s])]
<1>1. clients \in [Slots -> ClientRecords] /\ stack \in Seq(Frames)
  BY DEF SlotInv, TypeInv, TypeOK
<1>2. s \in Slots
  <2>1. Top \in Frames /\ Top.op = "close"
    BY <1>1, TopFrame DEF Close
  <2>2. QED
    BY <2>1, FrameFields DEF ClientCalls
<1>3. role_reassign(left) /\ mread' = update_master_interest(left) /\ typed' = typed
  BY DEF Close, tty
<1>4. left \in [Slots -> ClientRecords]
  BY <1>1, <1>2, ClientTypes
<1>5. \A t \in Slots : SlotOK(left[t])
  <2>1. \A t \in Slots : SlotOK(clients[t])
    BY SlotsOK DEF SlotInv, InputOwned
  <2>2. SlotOK(Cleared(clients[s]))
    BY <1>1, <1>2, ClearedOK
  <2>3. QED
    BY <1>1, <1>2, <2>1, <2>2
<1> HIDE DEF left
<1>6. \A t \in Slots : SameFlow(left[t], clients'[t])
  <2>1. CASE clients' = left
    BY <2>1 DEF SameFlow
  <2>2. CASE /\ Candidates(left) # {}
             /\ clients' = [left EXCEPT ![Min(Candidates(left))].role = "WRITE"]
    <3> DEFINE g == Min(Candidates(left))
    <3>1. g \in Slots
      <4>1. Candidates(left) \in SUBSET Slots
        BY DEF Candidates, Live
      <4>2. QED
        BY <2>2, <4>1, PickSlot
    <3>2. clients' = [left EXCEPT ![g].role = "WRITE"]
      BY <2>2
    <3> HIDE DEF g
    <3>3. \A t \in Slots : clients'[t] = IF t = g THEN [left[t] EXCEPT !.role = "WRITE"]
                                         ELSE left[t]
      BY <1>4, <3>1, <3>2
    <3>4. SameFlow(left[g], [left[g] EXCEPT !.role = "WRITE"])
      BY <1>4, <3>1, FlowFields, Zenon DEF Roles
    <3>5. QED
      BY <3>3, <3>4, Zenon DEF SameFlow
  <2>3. QED
    BY <1>3, <2>1, <2>2 DEF role_reassign
<1>7. \A t \in Slots : SlotOK(clients'[t])
  <2>1. clients' \in [Slots -> ClientRecords]
    BY DEF TypeInv, TypeOK
  <2>2. QED
    BY <1>4, <1>5, <1>6, <2>1, SameSlotOK
<1>8. FreeSlotsClean' /\ InputOwned'
  BY <1>3, <1>7 DEF SlotInv, InputOwned, FreeSlotsClean, SlotOK, Blocked
<1>9. BackpressureEngages'
  BY <1>3, <1>6, Zenon DEF BackpressureEngages, update_master_interest, Live, Blocked,
                    SameFlow
<1>10. QED
  BY <1>8, <1>9 DEF SlotInv

\* The other frames touch at most a client's role, flags and ready field.
LEMMA OtherStepsSafe ==
    ASSUME SlotInv, TypeInv', stack # <<>>,
           \/ Resize \/ Event \/ EventEnd \/ Demote \/ AttachRole
           \/ AttachReady \/ AttachEcho \/ RequestRole \/ StopLoop
           \/ DisconnectAll
    PROVE  SlotInv'
<1>1. clients \in [Slots -> ClientRecords] /\ stack \in Seq(Frames)
  BY DEF SlotInv, TypeInv, TypeOK
<1>2. mread' = mread /\ typed' = typed
  BY DEF Resize, Event, EventEnd, Demote, AttachRole, AttachReady, AttachEcho,
         RequestRole, StopLoop, DisconnectAll, tty
<1>3. Top \in Frames
  BY <1>1, TopFrame
<1>4. CASE UNCHANGED clients
  BY <1>2, <1>4, SameStep DEF SameFlow
<1>5. ASSUME NEW s \in Slots, NEW c \in ClientRecords,
             clients' = [clients EXCEPT ![s] = c], SameFlow(clients[s], c)
      PROVE  SlotInv'
  <2>1. \A t \in Slots : clients'[t] = IF t = s THEN c ELSE clients[t]
    BY <1>1, <1>5
  <2>2. \A t \in Slots : SameFlow(clients[t], clients'[t])
    BY <1>5, <2>1 DEF SameFlow
  <2>3. QED
    BY <1>2, <2>2, SameStep
<1>6. CASE Demote /\ LaterWriters(Top.s, Top.i) # {}
  <2> DEFINE o == Min(LaterWriters(Top.s, Top.i))
             c == [clients[o] EXCEPT !.role = "VIEW"]
  <2>1. o \in Slots
    <3>1. LaterWriters(Top.s, Top.i) \in SUBSET Slots
      BY DEF LaterWriters, Writers, Live
    <3>2. QED
      BY <1>6, <3>1, PickSlot
  <2>2. clients' = [clients EXCEPT ![o].role = "VIEW"]
    BY <1>6 DEF Demote
  <2> HIDE DEF o
  <2>3. c \in ClientRecords /\ SameFlow(clients[o], c)
    BY <1>1, <2>1, FieldTypes, FlowFields, Zenon DEF Roles
  <2>4. clients' = [clients EXCEPT ![o] = c]
    BY <1>1, <2>1, <2>2
  <2>5. QED
    BY <1>5, <2>1, <2>3, <2>4, Zenon
<1>7. CASE AttachRole
  <2> DEFINE s == Top.s  c == [clients[s] EXCEPT !.role = Top.v]
  <2>1. s \in Slots /\ Top.v \in Roles
    BY <1>3, <1>7, FrameFields DEF AttachRole, ClientCalls
  <2>2. c \in ClientRecords /\ SameFlow(clients[s], c)
    BY <1>1, <2>1, FieldTypes, FlowFields, Zenon
  <2>3. clients' = [clients EXCEPT ![s] = c]
    BY <1>1, <1>7, <2>1 DEF AttachRole
  <2>4. QED
    BY <1>5, <2>1, <2>2, <2>3, Zenon
<1>8. CASE AttachReady
  <2> DEFINE s == Top.s  c == [clients[s] EXCEPT !.ready = TRUE]
  <2>1. s \in Slots
    BY <1>3, <1>8, FrameFields DEF AttachReady, ClientCalls
  <2>2. c \in ClientRecords /\ SameFlow(clients[s], c)
    BY <1>1, <2>1, FieldTypes, FlowFields, Zenon
  <2>3. clients' = [clients EXCEPT ![s] = c]
    BY <1>1, <1>8, <2>1 DEF AttachReady
  <2>4. QED
    BY <1>5, <2>1, <2>2, <2>3, Zenon
<1>9. CASE RequestRole
  <2> DEFINE s == Top.s  c == [clients[s] EXCEPT !.flags = Top.f, !.role = Top.v]
  <2>1. s \in Slots /\ Top.v \in Roles /\ Top.f \in SUBSET Flags
    BY <1>3, <1>9, FrameFields DEF RequestRole, ClientCalls
  <2>2. c \in ClientRecords /\ SameFlow(clients[s], c)
    BY <1>1, <2>1, FieldTypes, FlowFields, Zenon
  <2>3. clients' = [clients EXCEPT ![s] = c]
    BY <1>1, <1>9, <2>1, Zenon DEF RequestRole, ClientRecords
  <2>4. QED
    BY <1>5, <2>1, <2>2, <2>3, Zenon
<1>10. QED
  BY <1>4, <1>6, <1>7, <1>8, <1>9 DEF Resize, Event, EventEnd, Demote,
     AttachEcho, StopLoop, DisconnectAll

\* The new client finds a clean slot, hence is not blocked.
LEMMA AttachSafe ==
    ASSUME SlotInv, TypeInv', NEW p \in Procs, NEW f \in AttachFlags,
           NEW r \in Sizes, Attach(p, f, r)
    PROVE  SlotInv'
<1> DEFINE free == Slots \ Live(clients)
           s == Min(free)
           c == mclient_alloc(clients[s], p, f, r)
<1>1. clients \in [Slots -> ClientRecords] /\ \A t \in Slots : SlotOK(clients[t])
  BY SlotsOK DEF SlotInv, InputOwned, TypeInv, TypeOK
<1>2. s \in free
  <2>1. free \in SUBSET Slots /\ free # {}
    BY DEF Attach, Live
  <2> HIDE DEF free
  <2>2. QED
    BY <2>1, PickSlot
<1>3. /\ clients' = [clients EXCEPT ![s] = mclient_alloc(clients[s], p, f, r)]
      /\ mread' = mread /\ typed' = typed
  BY DEF Attach, tty
<1>4. s \in Slots /\ ~ clients[s].fd
  <2>1. s \in Slots /\ s \notin Live(clients)
    BY <1>2
  <2> HIDE DEF s
  <2>2. QED
    BY <2>1 DEF Live
<1> HIDE DEF s, free
<1>5. /\ c.fd /\ c.inq = clients[s].inq /\ c.inq = <<>>
      /\ c.paused = clients[s].paused /\ c.hiwater = clients[s].hiwater
      /\ ~ c.paused /\ ~ c.hiwater
  <2>1. clients[s] \in ClientRecords /\ SlotOK(clients[s])
    BY <1>1, <1>4
  <2>2. QED
    BY <1>4, <2>1 DEF mclient_alloc, ClientRecords, SlotOK
<1>6. SlotOK(c)
  <2>1. \A n \in DOMAIN c.inq : FALSE
    BY <1>5
  <2>2. QED
    BY <1>5, <2>1 DEF SlotOK
<1>7. \A t \in Slots : clients'[t] = IF t = s THEN c ELSE clients[t]
  BY <1>1, <1>3, <1>4
<1> HIDE DEF c
<1>8. \A t \in Slots : SlotOK(clients'[t])
  BY <1>1, <1>6, <1>7, SMTT(30)
<1>9. FreeSlotsClean' /\ InputOwned'
  BY <1>3, <1>8 DEF SlotInv, InputOwned, FreeSlotsClean, SlotOK, Blocked
<1>10. BackpressureEngages'
  <2>1. s \in Live(clients') /\ ~ Blocked(clients'[s])
    BY <1>4, <1>5, <1>7 DEF Live, Blocked
  <2>2. QED
    BY <2>1 DEF BackpressureEngages
<1>11. QED
  BY <1>9, <1>10 DEF SlotInv

LEMMA InputSafe ==
    ASSUME SlotInv, TypeInv', NEW s \in Slots,
           Input(s) \/ InputBegin(s) \/ InputEnd(s)
    PROVE  SlotInv'
<1>1. /\ clients \in [Slots -> ClientRecords] /\ clients[s] \in ClientRecords
      /\ SlotOK(clients[s]) /\ clients[s].fd
  BY SlotsOK DEF SlotInv, InputOwned, TypeInv, TypeOK, Input, InputBegin,
                 InputEnd, Receive
<1>2. clients[s].inq \in Seq(Procs) /\ clients[s].id \in Procs
  BY <1>1 DEF ClientRecords
<1>3. mread' = mread
  BY DEF Input, InputBegin, InputEnd
<1>4. \A n \in DOMAIN clients[s].inq : clients[s].inq[n] = clients[s].id
  BY <1>1 DEF SlotOK
<1>5. \A m, n \in DOMAIN typed' : typed'[m] = typed'[n]
  <2>1. \/ typed' = typed \/ typed' = clients[s].inq
        \/ typed' = <<clients[s].id>>
    BY DEF Input, InputBegin, InputEnd, tty
  <2>2. CASE typed' = typed
    BY <2>2 DEF SlotInv, InputOwned
  <2>3. CASE typed' = clients[s].inq
    BY <1>4, <2>3
  <2>4. CASE typed' = <<clients[s].id>>
    BY <2>4
  <2>5. QED
    BY <2>1, <2>2, <2>3, <2>4
<1>6. CASE UNCHANGED clients
  <2>1. clients' = [clients EXCEPT ![s] = clients[s]]
    BY <1>1, <1>6
  <2>2. QED
    BY <1>1, <1>3, <1>5, <2>1, OneSlot, Zenon
<1>7. ASSUME clients' = [clients EXCEPT ![s].inq = Append(@, clients[s].id)]
      PROVE  SlotInv'
  <2> DEFINE q == Append(clients[s].inq, clients[s].id)
             c == [clients[s] EXCEPT !.inq = q]
  <2>1. q \in Seq(Procs) /\ \A n \in DOMAIN q : q[n] = clients[s].id
    BY <1>2, <1>4
  <2>2. clients' = [clients EXCEPT ![s] = c]
    BY <1>1, <1>7
  <2> HIDE DEF q
  <2>3. c \in ClientRecords
    BY <1>1, <2>1, FieldTypes, Zenon
  <2>4. /\ c.fd /\ c.inq = q /\ c.id = clients[s].id
        /\ c.paused = clients[s].paused /\ c.hiwater = clients[s].hiwater
    BY <1>1 DEF ClientRecords
  <2>5. SlotOK(c)
    BY <2>1, <2>4 DEF SlotOK
  <2> HIDE DEF c
  <2>6. QED
    BY <1>1, <1>3, <1>5, <2>2, <2>3, <2>4, <2>5, OneSlot, Zenon
<1>8. ASSUME NEW b \in BOOLEAN,
             clients' = [clients EXCEPT ![s].inq = <<>>, ![s].inrun = b]
      PROVE  SlotInv'
  <2> DEFINE none == <<>>
             c == [clients[s] EXCEPT !.inq = none, !.inrun = b]
  <2>1. none \in Seq(Procs) /\ \A n \in DOMAIN none : FALSE
    OBVIOUS
  <2>2. clients' = [clients EXCEPT ![s] = c]
    BY <1>1, <1>8, Zenon DEF ClientRecords
  <2> HIDE DEF none
  <2>3. c \in ClientRecords
    BY <1>1, <2>1, FieldTypes, Zenon
  <2>4. /\ c.fd /\ c.inq = none
        /\ c.paused = clients[s].paused /\ c.hiwater = clients[s].hiwater
    BY <1>1 DEF ClientRecords
  <2>5. SlotOK(c)
    BY <2>1, <2>4 DEF SlotOK
  <2> HIDE DEF c
  <2>6. QED
    BY <1>1, <1>3, <1>5, <2>2, <2>3, <2>4, <2>5, OneSlot, Zenon
<1>9. QED
  BY <1>6, <1>7, <1>8, Zenon DEF Input, InputBegin, InputEnd

LEMMA FlowSafe ==
    ASSUME SlotInv, TypeInv', NEW s \in Slots,
           \/ \E pause \in BOOLEAN : FlowCtrl(s, pause)
           \/ \E r \in Sizes : WinResize(s, r)
           \/ Writable(s)
    PROVE  SlotInv'
<1>1. /\ clients \in [Slots -> ClientRecords] /\ clients[s] \in ClientRecords
      /\ SlotOK(clients[s]) /\ clients[s].fd
  BY SlotsOK DEF SlotInv, InputOwned, TypeInv, TypeOK, FlowCtrl, WinResize,
                 Writable, Receive
<1>2. typed' = typed /\ \A m, n \in DOMAIN typed' : typed'[m] = typed'[n]
  BY DEF FlowCtrl, WinResize, Writable, tty, SlotInv, InputOwned
<1>3. ASSUME NEW pause \in BOOLEAN, FlowCtrl(s, pause)
      PROVE  SlotInv'
  <2> DEFINE c == [clients[s] EXCEPT !.paused = pause]
  <2>1. c \in ClientRecords
    BY <1>1, FieldTypes, Zenon
  <2>2. c.fd /\ c.inq = clients[s].inq /\ c.id = clients[s].id
    BY <1>1 DEF ClientRecords
  <2>3. clients' = [clients EXCEPT ![s] = c] /\ mread' = update_master_interest(clients')
    BY <1>1, <1>3 DEF FlowCtrl
  <2> HIDE DEF c
  <2>4. SlotOK(c)
    BY <1>1, <2>2 DEF SlotOK
  <2>5. QED
    BY <1>2, <2>1, <2>3, <2>4, OneSlot, Zenon
<1>4. ASSUME NEW r \in Sizes, WinResize(s, r)
      PROVE  SlotInv'
  <2> DEFINE c == [clients[s] EXCEPT !.rows = r]
  <2>1. c \in ClientRecords /\ SameFlow(clients[s], c)
    BY <1>1, FieldTypes, FlowFields, ConstantsAssumption, Zenon
  <2>2. clients' = [clients EXCEPT ![s] = c] /\ mread' = mread
    BY <1>1, <1>4 DEF WinResize
  <2> HIDE DEF c
  <2>3. SlotOK(c)
    BY <1>1, <2>1, SameSlotOK
  <2>4. QED
    BY <1>2, <2>1, <2>2, <2>3, OneSlot, Zenon DEF SameFlow
<1>5. CASE Writable(s)
  <2>1. CASE UNCHANGED <<clients, mread>>
    BY <1>2, <2>1, SameStep DEF SameFlow
  <2>2. ASSUME NEW k \in 1..clients[s].pend,
               clients' = [clients EXCEPT ![s] = Flushed(clients[s], k)],
               mread' = IF clients'[s].hiwater = clients[s].hiwater THEN mread
                        ELSE update_master_interest(clients')
        PROVE  SlotInv'
    <3> DEFINE c == Flushed(clients[s], k)
    <3>1. /\ c.fd /\ c.inq = clients[s].inq /\ c.id = clients[s].id
          /\ c.paused = clients[s].paused
      BY <1>1, QueuedFields, SMTT(30)
    <3>2. c \in ClientRecords
      <4>1. clients[s].pend \in Nat
        BY <1>1, ConstantsAssumption DEF ClientRecords
      <4>2. k \in 0..clients[s].pend
        BY <4>1
      <4>3. QED
        BY <1>1, <4>2, ClientTypes
    <3>3. clients' = [clients EXCEPT ![s] = c]
      BY <2>2
    <3> HIDE DEF c
    <3>4. SlotOK(c)
      BY <1>1, <3>1 DEF SlotOK
    <3>5. \/ mread' = update_master_interest(clients')
          \/ mread' = mread /\ c.hiwater = clients[s].hiwater
      BY <1>1, <2>2, <3>3
    <3>6. QED
      BY <1>1, <1>2, <3>1, <3>2, <3>3, <3>4, <3>5, OneSlot, Zenon
  <2>3. QED
    BY <1>5, <2>1, <2>2 DEF Writable
<1>6. QED
  BY <1>3, <1>4, <1>5

\* Events that leave the table, the watch and what was typed alone.
LEMMA QuietEventsSafe ==
    ASSUME SlotInv, TypeInv', UNCHANGED <<clients, mread, typed>>
    PROVE  SlotInv'
BY SameStep DEF SameFlow

LEMMA InitSafe == Init => SlotInv
<1> SUFFICES ASSUME Init PROVE SlotInv
  OBVIOUS
<1> DEFINE p == CHOOSE q \in Procs : TRUE
<1>1. clients \in [Slots -> {FreeSlot(p)}] /\ typed = <<>>
  BY DEF Init
<1> HIDE DEF p
<1>2. \A s \in Slots : clients[s] = FreeSlot(p)
  BY <1>1
<1>3. \A s \in Slots : /\ ~ clients[s].fd /\ clients[s].pend = 0
                       /\ ~ clients[s].paused /\ ~ clients[s].hiwater
                       /\ ~ clients[s].inrun /\ clients[s].inq = <<>>
  BY <1>2 DEF FreeSlot
<1>4. FreeSlotsClean
  BY <1>3 DEF FreeSlotsClean, Blocked
<1>5. InputOwned
  BY <1>1, <1>3 DEF InputOwned
<1>6. BackpressureEngages
  BY <1>3 DEF BackpressureEngages, Live
<1>7. QED
  BY <1>4, <1>5, <1>6, InitType DEF SlotInv

LEMMA NextSafe ==
    ASSUME SlotInv, [Next]_vars
    PROVE  SlotInv'
<1>0. TypeInv'
  BY NextType DEF SlotInv
<1>1. CASE Step
  BY <1>0, <1>1, EnqueueSafe, CloseSafe, OtherStepsSafe DEF Step
<1>2. ASSUME NEW p \in Procs, NEW f \in AttachFlags, NEW r \in Sizes,
             Attach(p, f, r)
      PROVE  SlotInv'
  BY <1>0, <1>2, AttachSafe
<1>3. ASSUME NEW s \in Slots, Message(s) \/ Writable(s)
      PROVE  SlotInv'
  <2>1. CASE Input(s) \/ InputBegin(s) \/ InputEnd(s)
    BY <1>0, <2>1, InputSafe
  <2>2. CASE \/ \E pause \in BOOLEAN : FlowCtrl(s, pause)
             \/ \E r \in Sizes : WinResize(s, r)
             \/ Writable(s)
    BY <1>0, <2>2, FlowSafe
  <2>3. CASE \/ \E f \in AttachFlags : RoleRequest(s, f)
             \/ \E type \in Events \cap msg_mutates : Deny(s, type)
             \/ Refresh(s) \/ Attr(s) \/ Leave(s) \/ Kill(s)
    BY <1>0, <2>3, QuietEventsSafe, Zenon DEF RoleRequest, Deny, Refresh, Attr, Leave,
       Kill, tty
  <2>4. QED
    BY <1>3, <2>1, <2>2, <2>3, Zenon DEF Message
<1>4. CASE \/ MasterRead \/ EchoChange \/ ModeChange \/ StopRequest
           \/ DirRemoved \/ Sighup \/ Cleanup \/ Down \/ UNCHANGED vars
  <2>1. UNCHANGED <<clients, mread, typed>>
    BY <1>4 DEF MasterRead, EchoChange, ModeChange, StopRequest, DirRemoved,
       Sighup, Cleanup, Down, vars, tty
  <2>2. QED
    BY <1>0, <2>1, QuietEventsSafe, SMTT(30)
<1>5. QED
  BY <1>1, <1>2, <1>3, <1>4, Zenon DEF Next

LEMMA SlotInvariant == Spec => []SlotInv
BY InitSafe, NextSafe, PTL DEF Spec

\* A slot that is free holds nothing of the client that had it, so the next
\* one starts afresh although mclient_alloc clears only a part of it.
THEOREM SlotsClean == Spec => []FreeSlotsClean
<1>1. SlotInv => FreeSlotsClean
  BY DEF SlotInv
<1>2. QED
  BY SlotInvariant, <1>1, PTL

\* The output of the application is never read while every attached client is
\* paused or over its high-water mark.
THEOREM Backpressure == Spec => []BackpressureEngages
<1>1. SlotInv => BackpressureEngages
  BY DEF SlotInv
<1>2. QED
  BY SlotInvariant, <1>1, PTL

\* What is typed in one write comes from one client, and a run is only ever
\* finished by the client that began it.
THEOREM InputOwnership == Spec => []InputOwned
<1>1. SlotInv => InputOwned
  BY DEF SlotInv
<1>2. QED
  BY SlotInvariant, <1>1, PTL
=============================================================================
