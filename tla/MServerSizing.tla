--------------------------- MODULE MServerSizing ---------------------------
(***************************************************************************)
(* The size of the window in MServer.  Between the moment a client joins or  *)
(* leaves and the call of resize_to_fit other clients may be sent messages,  *)
(* dropped and announced, so the size fits only between handlers.  What      *)
(* holds all the time is SizeInv: it fits, or a call that will make it fit   *)
(* is still on the stack.                                                    *)
(***************************************************************************)
EXTENDS MServerProofs

Fits(cl, r) == Votes(cl) # {} => r = Min(Votes(cl))

FitCalls == {"resize", "attach_role"}

FitPending == \E i \in DOMAIN stack : stack[i].op \in FitCalls

SizeInv == TypeInv /\ (FitPending \/ Fits(clients, rows))

\* d has the connection and the vote of c.
SameVote(c, d) == d.fd = c.fd /\ d.flags = c.flags /\ d.rows = c.rows

LEMMA FitNow ==
    ASSUME NEW cl, rows' = resize_to_fit(cl)
    PROVE  Fits(cl, rows')
BY DEF resize_to_fit, Fits

LEMMA VotesKept ==
    ASSUME NEW a, NEW b, \A s \in Slots : SameVote(a[s], b[s])
    PROVE  Votes(b) = Votes(a)
<1> DEFINE A == {t \in Live(a) : "OBSERVE" \notin a[t].flags /\ a[t].rows > 0}
           B == {t \in Live(b) : "OBSERVE" \notin b[t].flags /\ b[t].rows > 0}
<1>1. A = B
  BY DEF Live, SameVote
<1>2. \A s \in A : a[s].rows = b[s].rows
  BY DEF Live, SameVote
<1>3. Votes(a) = {a[s].rows : s \in A} /\ Votes(b) = {b[s].rows : s \in B}
  BY DEF Votes
<1> HIDE DEF A, B
<1>4. QED
  BY <1>1, <1>2, <1>3

\* Returning from another call keeps a pending call pending.
LEMMA PendingKept ==
    ASSUME stack \in Seq(Frames), stack # <<>>, NEW fs \in Seq(Frames),
           Return(fs), Top.op \notin FitCalls, FitPending
    PROVE  FitPending'
<1>1. /\ Len(fs) \in Nat /\ Len(stack) \in Nat \ {0}
      /\ DOMAIN stack = 1..Len(stack)
      /\ DOMAIN stack' = 1..(Len(fs) + Len(stack) - 1)
      /\ \A i \in 2..Len(stack) : stack'[i + Len(fs) - 1] = stack[i]
  BY ReturnFrames
<1>2. PICK i \in DOMAIN stack : stack[i].op \in FitCalls
  BY DEF FitPending
<1>3. i # 1
  BY <1>2 DEF Top
<1>4. i \in 2..Len(stack)
  BY <1>1, <1>2, <1>3
<1>5. i + Len(fs) - 1 \in DOMAIN stack' /\ stack'[i + Len(fs) - 1] = stack[i]
  BY <1>1, <1>4
<1>6. QED
  BY <1>2, <1>5 DEF FitPending

\* Calling one makes it pending.
LEMMA PendingPushed ==
    ASSUME stack \in Seq(Frames), stack # <<>>, NEW fs \in Seq(Frames),
           NEW fr \in Frames, Return(fs \o <<fr>>), fr.op \in FitCalls
    PROVE  FitPending'
<1> DEFINE gs == fs \o <<fr>>
           n == Len(fs) + 1
<1>1. gs \in Seq(Frames) /\ n \in 1..Len(gs) /\ gs[n] = fr /\ Return(gs)
  OBVIOUS
<1>2. /\ Len(gs) \in Nat /\ Len(stack) \in Nat \ {0}
      /\ DOMAIN stack' = 1..(Len(gs) + Len(stack) - 1)
      /\ \A i \in 1..Len(gs) : stack'[i] = gs[i]
  <2> HIDE DEF gs
  <2>1. QED
    BY <1>1, ReturnFrames
<1> HIDE DEF gs, n
<1>3. n \in DOMAIN stack' /\ stack'[n] = fr
  BY <1>1, <1>2
<1>4. QED
  BY <1>3 DEF FitPending

\* The votes and the size stay: what was pending still is, what fits still does.
LEMMA SameSize ==
    ASSUME SizeInv, TypeInv', stack # <<>>, Top.op \notin FitCalls,
           NEW fs \in Seq(Frames), Return(fs), rows' = rows,
           \A s \in Slots : SameVote(clients[s], clients'[s])
    PROVE  SizeInv'
<1>1. FitPending => FitPending'
  BY PendingKept DEF SizeInv, TypeInv, TypeOK
<1>2. Votes(clients') = Votes(clients)
  BY VotesKept
<1>3. QED
  BY <1>1, <1>2 DEF SizeInv, Fits

\* Queueing and flushing leave the vote alone.
LEMMA QueueVotes ==
    ASSUME NEW c \in ClientRecords
    PROVE  /\ SameVote(c, Queued(c))
           /\ \A k : SameVote(c, Flushed(c, k))
           /\ \A r \in Roles : SameVote(c, [c EXCEPT !.role = r])
           /\ SameVote(c, [c EXCEPT !.ready = TRUE])
BY DEF SameVote, Queued, Flushed, ClientRecords

LEMMA EnqueueSize ==
    ASSUME SizeInv, TypeInv', stack # <<>>, Enqueue
    PROVE  SizeInv'
<1> DEFINE s == Min(Top.to)
<1>1. clients \in [Slots -> ClientRecords] /\ stack \in Seq(Frames) /\ TypeInv
  BY DEF SizeInv, TypeInv, TypeOK
<1>2. Top.op = "enqueue" /\ EnqueueTo(s) /\ rows' = rows
  BY DEF Enqueue
<1>3. s \in Slots /\ s \in Top.to
  <2>1. Top.to \in SUBSET Slots /\ Top.to # {}
    BY <1>1, <1>2, TopFrame, FrameFields
  <2>2. QED
    BY <2>1, PickSlot
<1> HIDE DEF s
<1>4. \E calls \in Seq(PlainFrames) : Sent(s, calls)
  <2>1. <<>> \in Seq(PlainFrames) /\ mclient_disconnect(s) \in Seq(PlainFrames)
    BY <1>3, CallSeqTypes
  <2>2. QED
    BY <1>2, <2>1, Zenon DEF EnqueueTo, QueueTo
<1>5. \E fs \in Seq(Frames) : Return(fs)
  <2>1. PICK calls \in Seq(PlainFrames) : Sent(s, calls)
    BY <1>4
  <2> DEFINE fs == calls \o Sends(Top.to \ {s}, Top.k, Top.v, Top.s)
  <2>2. fs \in Seq(PlainFrames) /\ Return(fs)
    BY <1>1, <1>2, <1>3, <2>1, SentSeq, Zenon DEF Sent
  <2> HIDE DEF fs
  <2>3. QED
    BY <2>2, PlainSeq
<1>6. \/ clients' = clients
      \/ \E c : /\ clients' = [clients EXCEPT ![s] = c]
                /\ SameVote(clients[s], c)
  <2> DEFINE q == Queued(clients[s])
  <2>1. clients[s] \in ClientRecords
    BY <1>1, <1>3
  <2>2. SameVote(clients[s], q)
    BY <2>1, QueueVotes, Zenon
  <2>3. ~ OverLimit(clients[s]) => \A k : SameVote(clients[s], Flushed(q, k))
    <3>1. ASSUME ~ OverLimit(clients[s]), NEW k
          PROVE  SameVote(clients[s], Flushed(q, k))
      <4>1. q \in ClientRecords
        BY <2>1, <3>1, ClientTypes
      <4>2. SameVote(q, Flushed(q, k))
        BY <4>1, QueueVotes, Zenon
      <4>3. QED
        BY <2>2, <4>2 DEF SameVote
    <3>2. QED
      BY <3>1
  <2> HIDE DEF q
  <2>4. QED
    BY <1>2, <2>2, <2>3 DEF EnqueueTo, QueueTo, q
<1>7. \A t \in Slots : SameVote(clients[t], clients'[t])
  <2>1. CASE clients' = clients
    BY <2>1 DEF SameVote
  <2>2. ASSUME NEW c, clients' = [clients EXCEPT ![s] = c], SameVote(clients[s], c)
        PROVE  \A t \in Slots : SameVote(clients[t], clients'[t])
    <3>1. \A t \in Slots : clients'[t] = IF t = s THEN c ELSE clients[t]
      BY <1>1, <2>2
    <3>2. QED
      BY <2>2, <3>1 DEF SameVote
  <2>3. QED
    BY <1>6, <2>1, <2>2
<1>8. Top.op \notin FitCalls
  BY <1>2 DEF FitCalls
<1>9. QED
  BY <1>2, <1>5, <1>7, <1>8, SameSize

\* mclient_disconnect always goes on to resize_to_fit.
LEMMA CloseSize ==
    ASSUME SizeInv, TypeInv', stack # <<>>, Close
    PROVE  SizeInv'
<1> DEFINE left == [clients EXCEPT ![Top.s] = Cleared(@)]
<1>1. stack \in Seq(Frames) /\ role_reassign(left)
  BY DEF SizeInv, TypeInv, TypeOK, Close
<1> HIDE DEF left
<1>2. resize_call \in Frames /\ resize_call.op \in FitCalls
  BY CallTypes DEF resize_call, Call, FitCalls, PlainFrames
<1>3. CASE Return(<<resize_call>>)
  <2> DEFINE none == <<>>
  <2>1. none \in Seq(Frames) /\ Return(none \o <<resize_call>>)
    BY <1>2, <1>3
  <2> HIDE DEF none
  <2>2. FitPending'
    BY <1>1, <1>2, <2>1, PendingPushed
  <2>3. QED
    BY <2>2 DEF SizeInv
<1>4. CASE /\ Candidates(left) # {}
           /\ Return(role_change(Min(Candidates(left)), "WRITE") \o <<resize_call>>)
  <2> DEFINE g == Min(Candidates(left))
             fs == role_change(g, "WRITE")
  <2>1. g \in Slots
    <3>1. Candidates(left) \in SUBSET Slots
      BY DEF Candidates, Live
    <3>2. QED
      BY <1>4, <3>1, PickSlot
  <2>2. Return(fs \o <<resize_call>>)
    BY <1>4
  <2> HIDE DEF g
  <2>3. fs \in Seq(Frames)
    BY <2>1, CallSeqTypes, PlainSeq DEF Roles
  <2> HIDE DEF fs
  <2>4. FitPending'
    BY <1>1, <1>2, <2>2, <2>3, PendingPushed
  <2>5. QED
    BY <2>4 DEF SizeInv
<1>5. QED
  BY <1>1, <1>3, <1>4 DEF role_reassign

LEMMA EventSize ==
    ASSUME SizeInv, TypeInv', stack # <<>>, Event \/ EventEnd
    PROVE  SizeInv'
<1>1. stack \in Seq(Frames) /\ Top \in Frames
  BY TopFrame DEF SizeInv, TypeInv, TypeOK
<1>2. rows' = rows /\ clients' = clients /\ Top.op \notin FitCalls
  BY DEF Event, EventEnd, FitCalls
<1>3. \E fs \in Seq(Frames) : Return(fs)
  <2>1. CASE Return(<<>>)
    <3> DEFINE none == <<>>
    <3>1. none \in Seq(PlainFrames) /\ Return(none)
      BY <2>1, CallSeqTypes
    <3> HIDE DEF none
    <3>2. QED
      BY <3>1, PlainSeq
  <2>2. CASE Event /\ ~ Return(<<>>)
    <3> DEFINE to == Audience(Top.s)
               sends == Sends(to, "EVENT", Top.v, Top.s)
               fs == sends \o <<event_end>>
    <3>1. Top.s \in Slots /\ Top.v \in {"JOIN", "LEAVE", "ROLE"}
      BY <1>1, <2>2, FrameFields DEF ClientCalls, Event
    <3>2. to \in SUBSET Slots
      BY DEF Audience, Live
    <3>3. sends \in Seq(PlainFrames)
      <4>1. to # {} => send_all(to, "EVENT", Top.v, Top.s) \in PlainFrames
        BY <3>1, <3>2, CallTypes, ZenonT(30)
      <4>2. QED
        BY <4>1, CallSeqTypes DEF Sends
    <3>4. Return(fs)
      BY <2>2 DEF Event
    <3> HIDE DEF sends
    <3>5. sends \in Seq(Frames) /\ event_end \in Frames
      BY <3>3, PlainSeq, CallTypes
    <3>6. fs \in Seq(Frames)
      BY <3>5
    <3>7. QED
      BY <3>4, <3>6, Zenon
  <2>3. QED
    BY <2>1, <2>2 DEF EventEnd
<1>4. QED
  BY <1>2, <1>3, SameSize DEF SameVote

\* The calls that evaluate the votes.
LEMMA FitSize ==
    ASSUME SizeInv, TypeInv', stack # <<>>, Resize \/ AttachRole \/ RequestRole
    PROVE  SizeInv'
<1>1. clients \in [Slots -> ClientRecords] /\ Top \in Frames
  BY TopFrame DEF SizeInv, TypeInv, TypeOK
<1>2. CASE Resize \/ RequestRole
  <2>1. rows' = resize_to_fit(clients')
    BY <1>2 DEF Resize, RequestRole
  <2>2. Fits(clients', rows')
    BY <2>1, FitNow
  <2>3. QED
    BY <2>2 DEF SizeInv
<1>3. CASE AttachRole
  <2> DEFINE s == Top.s
             c == [clients[s] EXCEPT !.role = Top.v]
  <2>1. s \in Slots /\ Top.v \in Roles
    BY <1>1, <1>3, FrameFields DEF AttachRole, ClientCalls
  <2>2. SameVote(clients[s], c)
    BY <1>1, <2>1, QueueVotes, Zenon
  <2>3. \A t \in Slots : clients'[t] = IF t = s THEN c ELSE clients[t]
    BY <1>1, <1>3, <2>1 DEF AttachRole
  <2> HIDE DEF c
  <2>4. \A t \in Slots : SameVote(clients[t], clients'[t])
    BY <2>2, <2>3 DEF SameVote
  <2>5. Votes(clients') = Votes(clients)
    BY <2>4, VotesKept
  <2>6. Fits(clients, rows')
    BY <1>3, FitNow DEF AttachRole
  <2>7. QED
    BY <2>5, <2>6 DEF SizeInv, Fits
<1>4. QED
  BY <1>2, <1>3

LEMMA OtherSize ==
    ASSUME SizeInv, TypeInv', stack # <<>>,
           Demote \/ AttachReady \/ AttachEcho \/ StopLoop \/ DisconnectAll
    PROVE  SizeInv'
<1>1. /\ clients \in [Slots -> ClientRecords] /\ Top \in Frames /\ TypeInv
      /\ echo \in Echoes
  BY TopFrame DEF SizeInv, TypeInv, TypeOK
<1>2. rows' = rows /\ Top.op \notin FitCalls
  BY DEF Demote, AttachReady, AttachEcho, StopLoop, DisconnectAll, FitCalls
<1>3. \A t \in Slots : SameVote(clients[t], clients'[t])
  <2>1. CASE clients' = clients
    BY <2>1 DEF SameVote
  <2>2. ASSUME NEW s \in Slots, NEW c, clients' = [clients EXCEPT ![s] = c],
               SameVote(clients[s], c)
        PROVE  \A t \in Slots : SameVote(clients[t], clients'[t])
    <3>1. \A t \in Slots : clients'[t] = IF t = s THEN c ELSE clients[t]
      BY <1>1, <2>2
    <3>2. QED
      BY <2>2, <3>1 DEF SameVote
  <2>3. CASE Demote /\ LaterWriters(Top.s, Top.i) # {}
    <3> DEFINE o == Min(LaterWriters(Top.s, Top.i))
               c == [clients[o] EXCEPT !.role = "VIEW"]
    <3>1. o \in Slots
      <4>1. LaterWriters(Top.s, Top.i) \in SUBSET Slots
        BY DEF LaterWriters, Writers, Live
      <4>2. QED
        BY <2>3, <4>1, PickSlot
    <3>2. clients' = [clients EXCEPT ![o].role = "VIEW"]
      BY <2>3 DEF Demote
    <3> HIDE DEF o
    <3>3. SameVote(clients[o], c) /\ clients' = [clients EXCEPT ![o] = c]
      BY <1>1, <3>1, <3>2, QueueVotes, Zenon DEF Roles
    <3>4. QED
      BY <2>2, <3>1, <3>3, Zenon
  <2>4. CASE AttachReady
    <3> DEFINE s == Top.s
               c == [clients[s] EXCEPT !.ready = TRUE]
    <3>1. s \in Slots
      BY <1>1, <2>4, FrameFields DEF AttachReady, ClientCalls
    <3>2. SameVote(clients[s], c) /\ clients' = [clients EXCEPT ![s] = c]
      BY <1>1, <2>4, <3>1, QueueVotes DEF AttachReady
    <3>3. QED
      BY <2>2, <3>1, <3>2, Zenon
  <2>5. QED
    BY <2>1, <2>3, <2>4 DEF Demote, AttachEcho, StopLoop, DisconnectAll
<1>4. \E fs \in Seq(PlainFrames) : Return(fs)
  <2>1. CASE Return(<<>>)
    BY <2>1, CallSeqTypes, Zenon
  <2>2. CASE Demote /\ LaterWriters(Top.s, Top.i) # {}
    <3> DEFINE o == Min(LaterWriters(Top.s, Top.i))
               fs == role_change(o, "VIEW") \o <<demote_loop(Top.s, o)>>
    <3>1. o \in Slots
      <4>1. LaterWriters(Top.s, Top.i) \in SUBSET Slots
        BY DEF LaterWriters, Writers, Live
      <4>2. QED
        BY <2>2, <4>1, PickSlot
    <3>2. Return(fs)
      BY <2>2 DEF Demote
    <3> HIDE DEF o
    <3>3. Top.s \in Slots /\ o \in 0..NSlots /\ "VIEW" \in Roles
      BY <1>1, <2>2, <3>1, FrameFields, ConstantsAssumption
         DEF Demote, ClientCalls, Slots, Roles
    <3>4. demote_loop(Top.s, o) \in PlainFrames
      BY <3>3, CallTypes
    <3>5. fs \in Seq(PlainFrames)
      BY <3>1, <3>3, <3>4, CallSeqTypes
    <3>6. QED
      BY <3>2, <3>5, Zenon
  <2>3. CASE AttachReady
    <3> DEFINE a == mclient_enqueue(Top.s, "OUTPUT", "-")
               b == client_event(Top.s, "JOIN")
               c == attach_flags(Top.s)
    <3>1. Top.s \in Slots
      BY <1>1, <2>3, FrameFields DEF AttachReady, ClientCalls
    <3>2. a \in PlainFrames /\ b \in PlainFrames /\ c \in PlainFrames
      BY <3>1, MessageTypes, CallTypes
    <3>3. Return(<<a, b, c>>)
      BY <2>3 DEF AttachReady
    <3> HIDE DEF a, b, c
    <3>4. <<a, b, c>> \in Seq(PlainFrames)
      BY <3>2
    <3>5. QED
      BY <3>3, <3>4, Zenon
  <2>4. CASE AttachEcho
    <3>1. Top.s \in Slots
      BY <1>1, <2>4, FrameFields DEF AttachEcho, ClientCalls
    <3>2. mclient_enqueue(Top.s, "PTY_FLAGS", echo) \in PlainFrames
      BY <1>1, <3>1, MessageTypes
    <3>3. QED
      BY <2>4, <3>2, CallSeqTypes, Zenon DEF AttachEcho
  <2>5. CASE DisconnectAll /\ Top.i <= NSlots
    <3> DEFINE i == Top.i
               fs == Append(mclient_disconnect(i), disconnect_all(i + 1))
    <3>1. i \in 0..(NSlots + 1) /\ i # 0
      BY <1>1, <2>5, FrameFields DEF DisconnectAll
    <3>2. i \in Slots /\ i + 1 \in 1..(NSlots + 1)
      BY <2>5, <3>1, ConstantsAssumption DEF Slots
    <3>3. fs \in Seq(PlainFrames)
      BY <3>2, CallTypes, CallSeqTypes
    <3>4. Return(fs)
      BY <2>5 DEF DisconnectAll
    <3>5. QED
      BY <3>3, <3>4, Zenon
  <2>6. QED
    BY <2>1, <2>2, <2>3, <2>4, <2>5 DEF Demote, StopLoop, DisconnectAll
<1>5. QED
  BY <1>2, <1>3, <1>4, PlainSeq, SameSize

\* Between handlers the size fits, so an event only has to keep it.
LEMMA MessageSize ==
    ASSUME SizeInv, TypeInv', stack = <<>>, rows' = rows,
           \A s \in Slots : SameVote(clients[s], clients'[s])
    PROVE  SizeInv'
<1>1. ~ FitPending
  BY DEF FitPending
<1>2. Votes(clients') = Votes(clients)
  BY VotesKept
<1>3. QED
  BY <1>1, <1>2 DEF SizeInv, Fits

LEMMA AttachSize ==
    ASSUME SizeInv, TypeInv', NEW p \in Procs, NEW f \in AttachFlags,
           NEW r \in Sizes, Attach(p, f, r)
    PROVE  SizeInv'
<1> DEFINE s == Min(Slots \ Live(clients))
           fr == grant_attach(s, role_for(s, f))
<1>1. stack' = TokenClaim(s, f) \o <<fr>>
  BY DEF Attach
<1> HIDE DEF s
<1>2. fr.op \in FitCalls
  BY DEF grant_attach, Call, FitCalls
<1> HIDE DEF fr
<1>3. \E i \in DOMAIN stack' : stack'[i] = fr
  <2>1. CASE TokenClaim(s, f) = <<>>
    <3>1. stack' = <<fr>>
      BY <1>1, <2>1
    <3>2. 1 \in DOMAIN stack' /\ stack'[1] = fr
      BY <3>1
    <3>3. QED
      BY <3>2
  <2>2. CASE TokenClaim(s, f) = <<demote_loop(s, 0)>>
    <3> DEFINE d == demote_loop(s, 0)
    <3>0. stack' = <<d>> \o <<fr>>
      BY <1>1, <2>2
    <3> HIDE DEF d
    <3>1. Len(stack') = 2 /\ stack' \in Seq({d, fr}) /\ stack'[2] = fr
      <4>1. <<d>> \in Seq({d, fr}) /\ <<fr>> \in Seq({d, fr})
        OBVIOUS
      <4>2. Len(<<d>>) = 1 /\ Len(<<fr>>) = 1 /\ <<fr>>[1] = fr
        OBVIOUS
      <4>3. QED
        BY <3>0, <4>1, <4>2
    <3>2. 2 \in DOMAIN stack' /\ stack'[2] = fr
      BY <3>1
    <3>3. QED
      BY <3>2
  <2>3. QED
    BY <2>1, <2>2 DEF TokenClaim
<1>4. QED
  BY <1>2, <1>3 DEF SizeInv, FitPending

\* Messages that change the client's record, but not its vote.
LEMMA RecordVotes ==
    ASSUME NEW c \in ClientRecords
    PROVE  /\ \A b \in BOOLEAN : SameVote(c, [c EXCEPT !.paused = b])
           /\ \A q : SameVote(c, [c EXCEPT !.inq = q])
           /\ \A q, b : SameVote(c, [c EXCEPT !.inq = q, !.inrun = b])
BY DEF SameVote, ClientRecords

LEMMA EventsSize ==
    ASSUME SizeInv, TypeInv', NEW s \in Slots, Message(s) \/ Writable(s)
    PROVE  SizeInv'
<1>1. clients \in [Slots -> ClientRecords] /\ clients[s] \in ClientRecords
  BY DEF SizeInv, TypeInv, TypeOK
<1>2. stack = <<>>
  BY Zenon DEF Message, Writable, RoleRequest, Deny, Input, InputBegin, InputEnd,
     FlowCtrl, WinResize, Refresh, Attr, Leave, Kill, Receive, Idle
<1>3. ASSUME NEW r \in Sizes, WinResize(s, r)
      PROVE  SizeInv'
  BY <1>3, FitNow, Zenon DEF WinResize, SizeInv
<1>4. ASSUME rows' = rows, NEW c, clients' = [clients EXCEPT ![s] = c],
             SameVote(clients[s], c)
      PROVE  SizeInv'
  <2>1. \A t \in Slots : clients'[t] = IF t = s THEN c ELSE clients[t]
    BY <1>1, <1>4
  <2>2. \A t \in Slots : SameVote(clients[t], clients'[t])
    BY <1>4, <2>1 DEF SameVote
  <2>3. QED
    BY <1>2, <1>4, <2>2, MessageSize
<1>5. CASE rows' = rows /\ clients' = clients
  BY <1>2, <1>5, MessageSize DEF SameVote
<1>6. CASE Input(s) \/ InputBegin(s) \/ InputEnd(s)
  <2>1. rows' = rows
    BY <1>6 DEF Input, InputBegin, InputEnd
  <2>2. \/ clients' = clients
        \/ \E q : clients' = [clients EXCEPT ![s] = [clients[s] EXCEPT !.inq = q]]
        \/ \E q, b : clients' = [clients EXCEPT ![s] = [clients[s] EXCEPT
                                     !.inq = q, !.inrun = b]]
    <3>1. CASE Input(s)
      BY <1>1, <3>1, Zenon DEF Input
    <3>2. CASE InputBegin(s)
      BY <1>1, <3>2, Zenon DEF InputBegin, ClientRecords
    <3>3. CASE InputEnd(s)
      BY <1>1, <3>3, Zenon DEF InputEnd, ClientRecords
    <3>4. QED
      BY <1>6, <3>1, <3>2, <3>3, Zenon
  <2>3. QED
    BY <1>1, <1>4, <1>5, <2>1, <2>2, RecordVotes, Zenon
<1>7. ASSUME NEW pause \in BOOLEAN, FlowCtrl(s, pause)
      PROVE  SizeInv'
  <2>1. /\ rows' = rows
        /\ clients' = [clients EXCEPT ![s] = [clients[s] EXCEPT !.paused = pause]]
    BY <1>1, <1>7 DEF FlowCtrl
  <2>2. QED
    BY <1>1, <1>4, <2>1, RecordVotes, Zenon
<1>8. CASE Writable(s)
  <2>1. rows' = rows
    BY <1>8 DEF Writable
  <2>2. \/ clients' = clients
        \/ \E k : clients' = [clients EXCEPT ![s] = Flushed(clients[s], k)]
    BY <1>8 DEF Writable
  <2>3. QED
    BY <1>1, <1>4, <1>5, <2>1, <2>2, QueueVotes, Zenon
<1>9. CASE \/ \E f \in AttachFlags : RoleRequest(s, f)
           \/ \E type \in Events \cap msg_mutates : Deny(s, type)
           \/ Refresh(s) \/ Attr(s) \/ Leave(s) \/ Kill(s)
  BY <1>5, <1>9, Zenon DEF RoleRequest, Deny, Refresh, Attr, Leave, Kill
<1>10. QED
  BY <1>3, <1>6, <1>7, <1>8, <1>9, Zenon DEF Message

LEMMA NextSize ==
    ASSUME SizeInv, [Next]_vars
    PROVE  SizeInv'
<1>0. TypeInv'
  BY NextType DEF SizeInv
<1>1. CASE Step
  BY <1>0, <1>1, EnqueueSize, CloseSize, EventSize, FitSize, OtherSize, SMTT(30) DEF Step
<1>2. ASSUME NEW p \in Procs, NEW f \in AttachFlags, NEW r \in Sizes,
             Attach(p, f, r)
      PROVE  SizeInv'
  BY <1>0, <1>2, AttachSize
<1>3. ASSUME NEW s \in Slots, Message(s) \/ Writable(s)
      PROVE  SizeInv'
  BY <1>0, <1>3, EventsSize
<1>4. CASE \/ MasterRead \/ EchoChange \/ ModeChange \/ StopRequest
           \/ DirRemoved \/ Sighup \/ Cleanup
  <2>1. stack = <<>> /\ rows' = rows /\ clients' = clients
    BY <1>4, SMTT(30) DEF MasterRead, EchoChange, ModeChange, StopRequest, DirRemoved,
       Sighup, Cleanup, Idle
  <2>2. QED
    BY <1>0, <2>1, MessageSize DEF SameVote
<1>5. CASE Down \/ UNCHANGED vars
  <2>1. UNCHANGED <<stack, rows, clients>>
    BY <1>5 DEF Down, vars
  <2>2. QED
    BY <1>0, <2>1 DEF SizeInv, FitPending, Fits, Votes, Live
<1>6. QED
  BY <1>1, <1>2, <1>3, <1>4, <1>5, Zenon DEF Next

\* Whoever attached, left, was dropped in the middle of a handler, resized or
\* changed its flags: when the handler is over, the window has the smallest
\* height among the clients that take part in the vote.
THEOREM SizeCorrect == Spec => []SizeFits
<1>1. Init => SizeInv
  <2>1. ASSUME Init PROVE Votes(clients) = {}
    <3>1. \A s \in Slots : ~ clients[s].fd
      BY <2>1 DEF Init, FreeSlot
    <3>2. QED
      BY <3>1 DEF Votes, Live
  <2>2. QED
    BY <2>1, InitType DEF SizeInv, Fits
<1>2. SizeInv => SizeFits
  BY DEF SizeInv, SizeFits, FitPending, Fits, Quiet
<1>3. QED
  BY <1>1, <1>2, NextSize, PTL DEF Spec
=============================================================================
