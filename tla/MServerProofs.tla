--------------------------- MODULE MServerProofs ---------------------------
(***************************************************************************)
(* Theorems about MServer, for every table size, every limit and every set  *)
(* of clients, flags and sizes.                                             *)
(***************************************************************************)
EXTENDS MServer, TLAPS, SequenceTheorems, WellFoundedInduction

\* Min picks the least member, as the loops over the client table do.
LEMMA MinLemma ==
    ASSUME NEW S \in SUBSET Nat, S # {}
    PROVE  Min(S) \in S /\ \A y \in S : Min(S) <= y
<1>1. \E x \in S : \A y \in S : ~ (<<y, x>> \in OpToRel(<, Nat))
  BY NatLessThanWellFounded, WFMin, Zenon
<1>2. PICK x \in S : \A y \in S : ~ (<<y, x>> \in OpToRel(<, Nat))
  BY <1>1, Zenon
<1>3. \A y \in S : x <= y
  <2>1. TAKE y \in S
  <2>2. <<y, x>> \notin OpToRel(<, Nat)
    BY <1>2, Zenon
  <2>3. ~ (y < x)
    BY <2>2 DEF OpToRel
  <2>4. QED
    BY <2>3
<1>4. QED
  BY <1>3, Zenon DEF Min
-----------------------------------------------------------------------------
(* The call stack.                                                          *)

\* A call that returns after making the calls fs leaves a stack of frames.
LEMMA ReturnType ==
    ASSUME stack \in Seq(Frames), stack # <<>>, NEW fs \in Seq(Frames), Return(fs)
    PROVE  stack' \in Seq(Frames)
<1>1. Tail(stack) \in Seq(Frames)
  BY HeadTailProperties
<1>2. QED
  BY <1>1, ConcatProperties DEF Return

\* The frames of a stack after a return, by position.
LEMMA ReturnFrames ==
    ASSUME stack \in Seq(Frames), stack # <<>>, NEW fs \in Seq(Frames), Return(fs)
    PROVE  /\ Len(fs) \in Nat /\ Len(stack) \in Nat \ {0}
           /\ DOMAIN fs = 1..Len(fs)
           /\ DOMAIN stack = 1..Len(stack)
           /\ DOMAIN stack' = 1..(Len(fs) + Len(stack) - 1)
           /\ \A i \in 1..Len(fs) : stack'[i] = fs[i]
           /\ \A i \in 2..Len(stack) : stack'[i + Len(fs) - 1] = stack[i]
<1>1. /\ Tail(stack) \in Seq(Frames)
      /\ Len(Tail(stack)) = Len(stack) - 1
      /\ \A i \in 1..(Len(stack) - 1) : Tail(stack)[i] = stack[i + 1]
      /\ Len(stack) \in Nat \ {0} /\ Len(fs) \in Nat
  BY HeadTailProperties, LenProperties, EmptySeq
<1>2. /\ DOMAIN fs = 1..Len(fs)
      /\ DOMAIN stack = 1..Len(stack)
      /\ DOMAIN stack' = 1..(Len(fs) + Len(stack) - 1)
      /\ \A i \in 1..(Len(fs) + Len(stack) - 1) :
            stack'[i] = IF i <= Len(fs) THEN fs[i] ELSE Tail(stack)[i - Len(fs)]
  BY <1>1, ConcatProperties, LenProperties DEF Return
<1>3. ASSUME NEW i \in 2..Len(stack)
      PROVE  stack'[i + Len(fs) - 1] = stack[i]
  <2>1. /\ i + Len(fs) - 1 \in 1..(Len(fs) + Len(stack) - 1)
        /\ ~ (i + Len(fs) - 1 <= Len(fs))
        /\ (i + Len(fs) - 1) - Len(fs) = i - 1
        /\ i - 1 \in 1..(Len(stack) - 1)
        /\ (i - 1) + 1 = i
    BY <1>1
  <2>2. QED
    BY <2>1, <1>1, <1>2
<1>4. QED
  BY <1>1, <1>2, <1>3

\* A step that neither starts nor ends an announcement keeps the count of
\* those in progress right.
LEMMA PlainReturn ==
    ASSUME stack \in Seq(Frames), stack # <<>>, NEW fs \in Seq(Frames),
           Return(fs), EventDepth, depth' = depth, stack[1].op # "event_end",
           \A i \in DOMAIN fs : fs[i].op # "event_end"
    PROVE  EventDepth'
<1> DEFINE E == {i \in DOMAIN stack : stack[i].op = "event_end"}
           E2 == {i \in DOMAIN stack' : stack'[i].op = "event_end"}
           d == Len(fs) - 1
<1>1. \A i \in E : i + d \in E2
  BY ReturnFrames
<1>2. \A j \in E2 : j - d \in E
  <2>1. TAKE j \in E2
  <2>2. j \in 1..(Len(fs) + Len(stack) - 1) /\ j > Len(fs)
    BY ReturnFrames
  <2>3. j - d \in 2..Len(stack) /\ (j - d) + Len(fs) - 1 = j
    BY <2>2, ReturnFrames
  <2>4. stack'[(j - d) + Len(fs) - 1] = stack[j - d]
    BY <2>3, ReturnFrames
  <2>5. QED
    BY <2>3, <2>4, ReturnFrames
<1>3. E \subseteq Nat /\ E2 \subseteq Nat /\ Len(fs) \in Nat
  BY ReturnFrames
<1>4. CASE depth = 0 /\ E = {}
  <2>1. E2 = {}
    BY <1>2, <1>4
  <2>2. QED
    BY <2>1, <1>4 DEF EventDepth
<1>5. CASE depth = 1 /\ \E i \in E : E = {i}
  <2>1. PICK i \in E : E = {i}
    BY <1>5
  <2>2. i + d \in E2
    BY <1>1
  <2>3. \A j \in E2 : j = i + d
    BY <1>2, <1>3, <2>1
  <2>4. E2 = {i + d}
    BY <2>2, <2>3
  <2>5. QED
    BY <2>2, <2>4, <1>5 DEF EventDepth
<1>6. QED
  BY <1>4, <1>5 DEF EventDepth

\* The end of an announcement: no other is in progress.
LEMMA EndReturn ==
    ASSUME stack \in Seq(Frames), stack # <<>>, Return(<<>>), EventDepth,
           depth' = depth - 1, stack[1].op = "event_end"
    PROVE  EventDepth' /\ depth' \in Nat
<1> DEFINE E == {i \in DOMAIN stack : stack[i].op = "event_end"}
           E2 == {i \in DOMAIN stack' : stack'[i].op = "event_end"}
<1> DEFINE none == <<>>
<1>1. none \in Seq(Frames) /\ Len(none) = 0 /\ Return(none)
  BY EmptySeq
<1> HIDE DEF none
<1>2. /\ Len(stack) \in Nat \ {0}
      /\ DOMAIN stack = 1..Len(stack)
      /\ DOMAIN stack' = 1..(0 + Len(stack) - 1)
      /\ \A i \in 2..Len(stack) : stack'[i + 0 - 1] = stack[i]
  BY <1>1, ReturnFrames, Zenon
<1>3. depth = 1 /\ E = {1}
  BY <1>2 DEF EventDepth
<1>4. ASSUME NEW j \in E2
      PROVE  FALSE
  <2>1. j + 1 \in 2..Len(stack) /\ (j + 1) + 0 - 1 = j
    BY <1>2
  <2>2. stack'[(j + 1) + 0 - 1] = stack[j + 1]
    BY <1>2, <2>1
  <2>3. j + 1 \in E
    BY <1>2, <2>1, <2>2
  <2>4. QED
    BY <1>3, <2>1, <2>3
<1>5. E2 = {} /\ depth' = 0
  BY <1>3, <1>4
<1>6. QED
  BY <1>5 DEF EventDepth

\* The start of an announcement, which pushes its own end.
LEMMA StartReturn ==
    ASSUME stack \in Seq(Frames), stack # <<>>, NEW fs \in Seq(Frames),
           Return(fs), EventDepth, depth = 0, depth' = 1, fs # <<>>,
           \A i \in DOMAIN fs : fs[i].op = "event_end" <=> i = Len(fs)
    PROVE  EventDepth'
<1> DEFINE E2 == {i \in DOMAIN stack' : stack'[i].op = "event_end"}
<1>1. Len(fs) \in Nat \ {0}
  BY EmptySeq, LenProperties
<1>2. \A i \in DOMAIN stack : stack[i].op # "event_end"
  BY DEF EventDepth
<1>3. Len(fs) \in E2
  BY <1>1, ReturnFrames
<1>4. ASSUME NEW j \in E2
      PROVE  j = Len(fs)
  <2>1. CASE j <= Len(fs)
    BY <2>1, <1>1, ReturnFrames
  <2>2. CASE j > Len(fs)
    <3>1. /\ j - Len(fs) + 1 \in 2..Len(stack)
          /\ (j - Len(fs) + 1) + Len(fs) - 1 = j
      BY <2>2, <1>1, ReturnFrames
    <3>2. stack'[(j - Len(fs) + 1) + Len(fs) - 1] = stack[j - Len(fs) + 1]
      BY <3>1, ReturnFrames
    <3>3. QED
      BY <3>1, <3>2, <1>2, ReturnFrames
  <2>3. QED
    BY <2>1, <2>2, <1>1, ReturnFrames
<1>5. E2 = {Len(fs)}
  BY <1>3, <1>4
<1>6. QED
  BY <1>3, <1>5 DEF EventDepth

\* All frames but the end of an announcement.
PlainFrames == {fr \in Frames : fr.op # "event_end"}

LEMMA PlainSeq ==
    ASSUME NEW fs \in Seq(PlainFrames)
    PROVE  fs \in Seq(Frames) /\ \A i \in DOMAIN fs : fs[i].op # "event_end"
<1>1. PlainFrames \subseteq Frames
  BY DEF PlainFrames
<1>2. fs \in Seq(Frames)
  BY <1>1, SeqMonotonic
<1>3. \A i \in DOMAIN fs : fs[i] \in PlainFrames
  BY ElementOfSeq, LenProperties
<1>4. QED
  BY <1>2, <1>3 DEF PlainFrames

LEMMA PlainStep ==
    ASSUME stack \in Seq(Frames), stack # <<>>, NEW fs \in Seq(PlainFrames),
           Return(fs), EventDepth, depth' = depth, Top.op # "event_end"
    PROVE  stack' \in Seq(Frames) /\ EventDepth'
<1>1. Top = stack[1]
  BY HeadTailProperties DEF Top
<1>2. QED
  BY <1>1, PlainSeq, ReturnType, PlainReturn

\* An event is handled with nothing else running.
LEMMA PlainEvent ==
    ASSUME stack = <<>>, stack' \in Seq(PlainFrames), EventDepth, depth' = depth
    PROVE  stack' \in Seq(Frames) /\ EventDepth'
<1>1. depth = 0
  BY DEF EventDepth
<1>2. \A i \in DOMAIN stack' : stack'[i].op # "event_end"
  BY PlainSeq
<1>3. QED
  BY <1>1, <1>2, PlainSeq DEF EventDepth

\* What each kind of message carries.
LEMMA PayloadOf ==
    /\ \A k \in {"-", "OUTPUT", "ERROR", "ATTR"} : Payload(k) = {"-"}
    /\ \A k \in {"REPLY", "ROLE_CHANGE"} : Payload(k) = Roles
    /\ Payload("PTY_FLAGS") = Echoes
    /\ Payload("EVENT") = {"JOIN", "LEAVE", "ROLE"}
BY DEF Payload

\* A message to some clients is a frame.
LEMMA SendType ==
    ASSUME NEW to \in SUBSET Slots, to # {}, NEW s \in 0..NSlots,
           NEW k \in {"-", "REPLY", "ROLE_CHANGE", "OUTPUT", "EVENT",
                      "PTY_FLAGS", "ERROR", "ATTR"},
           NEW v \in Payload(k), k = "EVENT" => s \in Slots
    PROVE  send_all(to, k, v, s) \in PlainFrames
<1> DEFINE fr == send_all(to, k, v, s)
<1>1. fr = [op |-> "enqueue", s |-> s, i |-> 0, to |-> to, k |-> k, v |-> v,
            f |-> {}]
  BY DEF send_all, Call
<1>2. v \in {"-", "JOIN", "LEAVE", "ROLE"} \cup Roles \cup Echoes
  BY PayloadOf
<1> HIDE DEF fr
<1>3. fr \in [op : ClientCalls \cup {"enqueue", "resize", "event_end", "stop",
                                     "disconnect_all"},
              s : 0..NSlots, i : 0..(NSlots + 1), to : SUBSET Slots,
              k : {"-", "REPLY", "ROLE_CHANGE", "OUTPUT", "EVENT",
                   "PTY_FLAGS", "ERROR", "ATTR"},
              v : {"-", "JOIN", "LEAVE", "ROLE"} \cup Roles \cup Echoes,
              f : SUBSET Flags]
  BY <1>1, <1>2, ConstantsAssumption
<1>4. /\ fr.op = "enqueue" /\ fr.to = to /\ fr.k = k /\ fr.v = v /\ fr.s = s
  BY <1>1
<1>5. fr \in Frames
  <2>1. /\ fr.op \notin ClientCalls /\ fr.op # "event"
        /\ fr.op \notin {"attach_role", "request_role", "disconnect_all"}
    BY <1>4 DEF ClientCalls
  <2>2. fr.to # {} /\ fr.v \in Payload(fr.k)
    BY <1>4
  <2>3. fr.k = "EVENT" => fr.s \in Slots
    BY <1>4
  <2>4. QED
    BY <1>3, <2>1, <2>2, <2>3 DEF Frames
<1>6. fr \in PlainFrames
  BY <1>4, <1>5 DEF PlainFrames
<1>7. QED
  BY <1>6 DEF fr

\* The frames the handlers push.
LEMMA CallTypes ==
    /\ \A to \in SUBSET Slots, k \in {"OUTPUT", "ERROR", "ATTR"}, s \in 0..NSlots :
          to # {} => send_all(to, k, "-", s) \in PlainFrames
    /\ \A to \in SUBSET Slots, v \in Roles, k \in {"REPLY", "ROLE_CHANGE"},
          s \in 0..NSlots : to # {} => send_all(to, k, v, s) \in PlainFrames
    /\ \A to \in SUBSET Slots, v \in Echoes, s \in 0..NSlots :
          to # {} => send_all(to, "PTY_FLAGS", v, s) \in PlainFrames
    /\ \A to \in SUBSET Slots, v \in {"JOIN", "LEAVE", "ROLE"}, s \in Slots :
          to # {} => send_all(to, "EVENT", v, s) \in PlainFrames
    /\ \A s \in Slots, v \in {"JOIN", "LEAVE", "ROLE"} :
          client_event(s, v) \in PlainFrames
    /\ event_end \in Frames
    /\ \A s \in Slots : /\ close_slot(s) \in PlainFrames
                        /\ attach_ready(s) \in PlainFrames
                        /\ attach_flags(s) \in PlainFrames
    /\ resize_call \in PlainFrames /\ stop_loop \in PlainFrames
    /\ \A s \in Slots, i \in 0..NSlots : demote_loop(s, i) \in PlainFrames
    /\ \A s \in Slots, want \in Roles : grant_attach(s, want) \in PlainFrames
    /\ \A s \in Slots, want \in Roles, f \in SUBSET Flags :
          grant_request(s, want, f) \in PlainFrames
    /\ \A i \in 1..(NSlots + 1) : disconnect_all(i) \in PlainFrames
<1>1. \A to \in SUBSET Slots, k \in {"OUTPUT", "ERROR", "ATTR"}, s \in 0..NSlots :
          to # {} => send_all(to, k, "-", s) \in PlainFrames
  BY PayloadOf, SendType
<1>2. \A to \in SUBSET Slots, v \in Roles, k \in {"REPLY", "ROLE_CHANGE"},
          s \in 0..NSlots : to # {} => send_all(to, k, v, s) \in PlainFrames
  BY PayloadOf, SendType
<1>3. \A to \in SUBSET Slots, v \in Echoes, s \in 0..NSlots :
          to # {} => send_all(to, "PTY_FLAGS", v, s) \in PlainFrames
  BY PayloadOf, SendType
<1>4. \A to \in SUBSET Slots, v \in {"JOIN", "LEAVE", "ROLE"}, s \in Slots :
          to # {} => send_all(to, "EVENT", v, s) \in PlainFrames
  <2>1. Slots \subseteq 0..NSlots
    BY ConstantsAssumption DEF Slots
  <2>2. QED
    BY <2>1, PayloadOf, SendType
<1> USE ConstantsAssumption
        DEF PlainFrames, Frames, ClientCalls, Payload, Call, Roles, Slots
<1>5. \A s \in Slots, v \in {"JOIN", "LEAVE", "ROLE"} :
          client_event(s, v) \in PlainFrames
  BY DEF client_event
<1>6. event_end \in Frames
  BY DEF event_end
<1>7. \A s \in Slots : /\ close_slot(s) \in PlainFrames
                       /\ attach_ready(s) \in PlainFrames
                       /\ attach_flags(s) \in PlainFrames
  BY DEF close_slot, attach_ready, attach_flags
<1>8. resize_call \in PlainFrames /\ stop_loop \in PlainFrames
  BY DEF resize_call, stop_loop
<1>9. \A s \in Slots, i \in 0..NSlots : demote_loop(s, i) \in PlainFrames
  BY DEF demote_loop
<1>10. \A s \in Slots, want \in Roles : grant_attach(s, want) \in PlainFrames
  BY DEF grant_attach
<1>11. \A s \in Slots, want \in Roles, f \in SUBSET Flags :
          grant_request(s, want, f) \in PlainFrames
  BY DEF grant_request
<1>12. \A i \in 1..(NSlots + 1) : disconnect_all(i) \in PlainFrames
  BY DEF disconnect_all
<1> HIDE DEF PlainFrames, Frames, ClientCalls, Payload, Call, Roles, Slots
<1>13. QED
  BY <1>1, <1>2, <1>3, <1>4, <1>5, <1>6, <1>7, <1>8, <1>9, <1>10, <1>11, <1>12, Zenon

LEMMA FrameFields ==
    ASSUME NEW fr \in Frames
    PROVE  /\ fr.s \in 0..NSlots /\ fr.i \in 0..(NSlots + 1)
           /\ fr.to \in SUBSET Slots /\ fr.f \in SUBSET Flags
           /\ fr.op \in ClientCalls \/ fr.k = "EVENT" => fr.s \in Slots
           /\ fr.op = "enqueue" =>
                 /\ fr.to # {} /\ fr.v \in Payload(fr.k)
                 /\ fr.k \in {"-", "REPLY", "ROLE_CHANGE", "OUTPUT", "EVENT",
                              "PTY_FLAGS", "ERROR", "ATTR"}
           /\ fr.op = "event" => fr.v \in {"JOIN", "LEAVE", "ROLE"}
           /\ fr.op \in {"attach_role", "request_role"} => fr.v \in Roles
           /\ fr.op = "disconnect_all" => fr.i # 0
<1>1. Payload("EVENT") = {"JOIN", "LEAVE", "ROLE"}
  BY DEF Payload
<1>2. QED
  BY <1>1 DEF Frames

LEMMA TopFrame ==
    ASSUME stack \in Seq(Frames), stack # <<>>
    PROVE  Top \in Frames
BY HeadTailProperties DEF Top

\* What the handlers do to a slot keeps it a client record.
LEMMA ClientTypes ==
    ASSUME NEW c \in ClientRecords
    PROVE  /\ \A p \in Procs, f \in SUBSET Flags, r \in Nat :
                 mclient_alloc(c, p, f, r) \in ClientRecords
           /\ Cleared(c) \in ClientRecords
           /\ ~ OverLimit(c) => Queued(c) \in ClientRecords
           /\ \A k \in 0..c.pend : Flushed(c, k) \in ClientRecords
<1>1. \A p \in Procs, f \in SUBSET Flags, r \in Nat :
         mclient_alloc(c, p, f, r) \in ClientRecords
  BY Zenon DEF ClientRecords, mclient_alloc, Roles
<1>2. Cleared(c) \in ClientRecords
  <2>1. <<>> \in Seq(Procs) /\ 0 \in 0..Hard
    BY EmptySeq, ConstantsAssumption
  <2>2. QED
    BY <2>1, Zenon DEF ClientRecords, Cleared, Roles
<1>3. ASSUME ~ OverLimit(c)
      PROVE  Queued(c) \in ClientRecords
  <2>1. c.pend + 1 \in 0..Hard
    BY <1>3, ConstantsAssumption DEF ClientRecords, OverLimit
  <2>2. (c.hiwater \/ c.pend + 1 >= High) \in BOOLEAN
    OBVIOUS
  <2>3. \A n \in 0..Hard, b \in BOOLEAN :
           [c EXCEPT !.pend = n, !.hiwater = b] \in ClientRecords
    BY Zenon DEF ClientRecords
  <2>4. QED
    BY <2>1, <2>2, <2>3, Zenon DEF Queued
<1>4. ASSUME NEW k \in 0..c.pend
      PROVE  Flushed(c, k) \in ClientRecords
  <2>1. c.pend - k \in 0..Hard
    BY ConstantsAssumption DEF ClientRecords
  <2>2. /\ (k = 0 /\ c.pend > 0) \in BOOLEAN
        /\ (c.hiwater /\ c.pend - k > Low) \in BOOLEAN
    OBVIOUS
  <2>3. \A n \in 0..Hard, a \in BOOLEAN, b \in BOOLEAN :
           [c EXCEPT !.pend = n, !.stalled = a, !.hiwater = b] \in ClientRecords
    BY Zenon DEF ClientRecords
  <2>4. QED
    BY <2>1, <2>2, <2>3, Zenon DEF Flushed
<1>5. QED
  BY <1>1, <1>2, <1>3, <1>4

\* So does setting a field.
LEMMA FieldTypes ==
    ASSUME NEW c \in ClientRecords
    PROVE  /\ \A r \in Roles : [c EXCEPT !.role = r] \in ClientRecords
           /\ \A f \in SUBSET Flags, r \in Roles :
                 [c EXCEPT !.flags = f, !.role = r] \in ClientRecords
           /\ [c EXCEPT !.ready = TRUE] \in ClientRecords
           /\ \A b \in BOOLEAN : [c EXCEPT !.paused = b] \in ClientRecords
           /\ \A n \in Nat : [c EXCEPT !.rows = n] \in ClientRecords
           /\ \A q \in Seq(Procs) : [c EXCEPT !.inq = q] \in ClientRecords
           /\ \A q \in Seq(Procs), b \in BOOLEAN :
                 [c EXCEPT !.inq = q, !.inrun = b] \in ClientRecords
<1>1. \A r \in Roles : [c EXCEPT !.role = r] \in ClientRecords
  BY DEF ClientRecords
<1>2. \A f \in SUBSET Flags, r \in Roles :
         [c EXCEPT !.flags = f, !.role = r] \in ClientRecords
  BY Zenon DEF ClientRecords
<1>3. [c EXCEPT !.ready = TRUE] \in ClientRecords
  BY Zenon DEF ClientRecords
<1>4. \A b \in BOOLEAN : [c EXCEPT !.paused = b] \in ClientRecords
  BY DEF ClientRecords
<1>5. \A n \in Nat : [c EXCEPT !.rows = n] \in ClientRecords
  BY DEF ClientRecords
<1>6. \A q \in Seq(Procs) : [c EXCEPT !.inq = q] \in ClientRecords
  BY Zenon DEF ClientRecords
<1>7. \A q \in Seq(Procs), b \in BOOLEAN :
         [c EXCEPT !.inq = q, !.inrun = b] \in ClientRecords
  BY Zenon DEF ClientRecords
<1>8. QED
  BY <1>1, <1>2, <1>3, <1>4, <1>5, <1>6, <1>7, Zenon

\* A message to one client.
LEMMA MessageTypes ==
    ASSUME NEW s \in Slots
    PROVE  /\ \A k \in {"OUTPUT", "ERROR", "ATTR"} :
                 mclient_enqueue(s, k, "-") \in PlainFrames
           /\ \A v \in Roles, k \in {"REPLY", "ROLE_CHANGE"} :
                 mclient_enqueue(s, k, v) \in PlainFrames
           /\ \A v \in Echoes : mclient_enqueue(s, "PTY_FLAGS", v) \in PlainFrames
<1>1. {s} \in SUBSET Slots /\ {s} # {} /\ s \in 0..NSlots
  BY ConstantsAssumption DEF Slots
<1>2. QED
  BY <1>1, CallTypes, Zenon DEF mclient_enqueue

\* Sequences of calls.
LEMMA CallSeqTypes ==
    /\ \A s \in Slots : mclient_disconnect(s) \in Seq(PlainFrames)
    /\ \A s \in Slots, role \in Roles : role_change(s, role) \in Seq(PlainFrames)
    /\ \A a \in Seq(PlainFrames), b \in Seq(PlainFrames) :
          a \o b \in Seq(PlainFrames)
    /\ \A a \in Seq(PlainFrames), e \in PlainFrames :
          Append(a, e) \in Seq(PlainFrames)
    /\ \A e \in PlainFrames : <<e>> \in Seq(PlainFrames)
    /\ <<>> \in Seq(PlainFrames)
<1>2. \A s \in Slots : mclient_disconnect(s) \in Seq(PlainFrames)
  BY CallTypes DEF mclient_disconnect
<1>3. \A s \in Slots, role \in Roles : role_change(s, role) \in Seq(PlainFrames)
  <2>1. TAKE s \in Slots, role \in Roles
  <2>2. /\ mclient_enqueue(s, "ROLE_CHANGE", role) \in PlainFrames
        /\ client_event(s, "ROLE") \in PlainFrames
    BY CallTypes, MessageTypes
  <2>3. QED
    BY <2>2 DEF role_change
<1>4. QED
  BY <1>2, <1>3, ConcatProperties, AppendProperties, EmptySeq
-----------------------------------------------------------------------------
(* Type correctness.                                                        *)

TypeInv == TypeOK /\ EventDepth

\* What a client was told stays a record of the right shape.
LEMMA PeerTypes ==
    ASSUME NEW p \in PeerRecords
    PROVE  /\ \A fr \in Frames : fr.op = "enqueue" => Told(p, fr) \in PeerRecords
           /\ \A type : Bracket(p, type) \in PeerRecords
           /\ Stranger \in PeerRecords
           /\ \A s : [p EXCEPT !.seen = @ \ {s}] \in PeerRecords
           /\ \A S \in SUBSET Slots : [p EXCEPT !.seen = S] \in PeerRecords
<1>1. ASSUME NEW fr \in Frames, fr.op = "enqueue"
      PROVE  Told(p, fr) \in PeerRecords
  <2>1. CASE fr.k \in {"REPLY", "ROLE_CHANGE"}
    <3>1. fr.v \in Roles
      BY <1>1, <2>1, FrameFields DEF Payload
    <3>2. Told(p, fr) = [p EXCEPT !.told = fr.v]
      BY <2>1 DEF Told
    <3>3. QED
      BY <3>1, <3>2 DEF PeerRecords
  <2>2. CASE fr.k = "PTY_FLAGS"
    <3>1. fr.v \in Echoes
      BY <1>1, <2>2, FrameFields DEF Payload
    <3>2. Told(p, fr) = [p EXCEPT !.knows = fr.v]
      BY <2>2 DEF Told
    <3>3. QED
      BY <3>1, <3>2 DEF PeerRecords
  <2>3. CASE fr.k = "EVENT" /\ fr.v = "JOIN"
    <3>1. fr.s \in Slots
      BY <2>3, FrameFields
    <3>2. Told(p, fr) = [p EXCEPT !.seen = @ \cup {fr.s}]
      BY <2>3 DEF Told
    <3>3. QED
      BY <3>1, <3>2 DEF PeerRecords
  <2>4. CASE ~ \/ fr.k \in {"REPLY", "ROLE_CHANGE"} \/ fr.k = "PTY_FLAGS"
               \/ fr.k = "EVENT" /\ fr.v = "JOIN"
    <3>1. Told(p, fr) = p
      BY <2>4 DEF Told
    <3>2. QED
      BY <3>1
  <2>5. QED
    BY <2>1, <2>2, <2>3, <2>4
<1>2. \A type : Bracket(p, type) \in PeerRecords
  BY Zenon DEF Bracket, PeerRecords
<1>3. Stranger \in PeerRecords
  BY DEF Stranger, PeerRecords
<1>4. \A s : [p EXCEPT !.seen = @ \ {s}] \in PeerRecords
  BY DEF PeerRecords
<1>5. \A S \in SUBSET Slots : [p EXCEPT !.seen = S] \in PeerRecords
  BY DEF PeerRecords
<1>6. QED
  BY <1>1, <1>2, <1>3, <1>4, <1>5

\* The window keeps a height.
LEMMA RowsType ==
    ASSUME NEW cl \in [Slots -> ClientRecords], rows \in Nat
    PROVE  resize_to_fit(cl) \in Nat
<1>1. Votes(cl) \in SUBSET Nat
  BY DEF Votes, Live, ClientRecords
<1>2. QED
  BY <1>1, MinLemma DEF resize_to_fit

\* The loops over the table pick a slot of it.
LEMMA PickSlot ==
    ASSUME NEW S \in SUBSET Slots, S # {}
    PROVE  Min(S) \in S /\ Min(S) \in Slots
<1>1. S \in SUBSET Nat
  BY ConstantsAssumption DEF Slots
<1>2. QED
  BY <1>1, MinLemma, Zenon

\* mclient_enqueue.
LEMMA SentSeq ==
    ASSUME TypeInv, stack # <<>>, Top.op = "enqueue", NEW s \in Top.to,
           NEW calls \in Seq(PlainFrames)
    PROVE  calls \o Sends(Top.to \ {s}, Top.k, Top.v, Top.s) \in Seq(PlainFrames)
<1> DEFINE to == Top.to \ {s}
           rest == Sends(to, Top.k, Top.v, Top.s)
<1>1. Top \in Frames /\ stack \in Seq(Frames) /\ EventDepth
  BY TopFrame DEF TypeInv, TypeOK
<1>2. to # {} => send_all(to, Top.k, Top.v, Top.s) \in PlainFrames
  <2>1. /\ Top.s \in 0..NSlots /\ to \in SUBSET Slots
        /\ Top.v \in Payload(Top.k)
        /\ Top.k \in {"-", "REPLY", "ROLE_CHANGE", "OUTPUT", "EVENT",
                      "PTY_FLAGS", "ERROR", "ATTR"}
        /\ Top.k = "EVENT" => Top.s \in Slots
    BY <1>1, FrameFields
  <2> DEFINE k == Top.k
             v == Top.v
             about == Top.s
  <2>2. /\ about \in 0..NSlots /\ to \in SUBSET Slots /\ v \in Payload(k)
        /\ k \in {"-", "REPLY", "ROLE_CHANGE", "OUTPUT", "EVENT", "PTY_FLAGS",
                  "ERROR", "ATTR"}
        /\ k = "EVENT" => about \in Slots
    BY <2>1
  <2> HIDE DEF to, k, v, about
  <2>3. to # {} => send_all(to, k, v, about) \in PlainFrames
    BY <2>2, SendType, ZenonT(30)
  <2>4. QED
    BY <2>3 DEF to, k, v, about
<1>3. rest \in Seq(PlainFrames)
  BY <1>2, CallSeqTypes DEF Sends
<1>4. QED
  BY <1>3, CallSeqTypes

LEMMA SentType ==
    ASSUME TypeInv, stack # <<>>, Top.op = "enqueue", NEW s \in Top.to,
           NEW calls \in Seq(PlainFrames), Sent(s, calls), depth' = depth
    PROVE  stack' \in Seq(Frames) /\ EventDepth'
<1> DEFINE fs == calls \o Sends(Top.to \ {s}, Top.k, Top.v, Top.s)
<1>1. fs \in Seq(PlainFrames)
  BY SentSeq, Zenon
<1>2. Top.op # "event_end" /\ Return(fs) /\ stack \in Seq(Frames) /\ EventDepth
  BY DEF Sent, TypeInv, TypeOK
<1> HIDE DEF fs
<1>3. QED
  BY <1>1, <1>2, PlainStep

LEMMA QueueType ==
    ASSUME TypeInv, stack # <<>>, Top.op = "enqueue", NEW s \in Top.to,
           NEW c \in ClientRecords, NEW calls \in Seq(PlainFrames),
           QueueTo(s, c, calls), depth' = depth
    PROVE  /\ clients' \in [Slots -> ClientRecords] /\ mread' \in BOOLEAN
           /\ peer' \in [Slots -> PeerRecords]
           /\ stack' \in Seq(Frames) /\ EventDepth'
<1>1. Top \in Frames /\ s \in Slots
  BY TopFrame, FrameFields DEF TypeInv, TypeOK
<1>2. Told(peer[s], Top) \in PeerRecords
  BY <1>1, PeerTypes DEF TypeInv, TypeOK
<1>3. peer' \in [Slots -> PeerRecords]
  <2>1. peer \in [Slots -> PeerRecords] /\ peer' = [peer EXCEPT ![s] = Told(@, Top)]
    BY DEF QueueTo, TypeInv, TypeOK
  <2>2. QED
    BY <1>1, <1>2, <2>1
<1>4. clients' \in [Slots -> ClientRecords]
  BY <1>1 DEF QueueTo, TypeInv, TypeOK
<1>5. mread' \in BOOLEAN
  <2>1. mread \in BOOLEAN /\ update_master_interest(clients') \in BOOLEAN
    BY DEF TypeInv, TypeOK, update_master_interest
  <2>2. QED
    BY <2>1 DEF QueueTo
<1>6. QED
  BY <1>3, <1>4, <1>5, SentType DEF QueueTo

LEMMA EnqueueType ==
    ASSUME TypeInv, stack # <<>>, Enqueue
    PROVE  TypeInv'
<1>1. Top \in Frames /\ Top.op = "enqueue"
  BY TopFrame DEF TypeInv, TypeOK, Enqueue
<1>2. PICK s \in Top.to : s \in Slots /\ EnqueueTo(s)
  BY <1>1, FrameFields, PickSlot DEF Enqueue
<1>3. /\ mclient_disconnect(s) \in Seq(PlainFrames) /\ <<>> \in Seq(PlainFrames)
      /\ clients[s] \in ClientRecords
  BY <1>2, CallSeqTypes DEF TypeInv, TypeOK
<1>4. UNCHANGED <<depth, rows, tty, process, upsets>>
  BY DEF Enqueue
<1> DEFINE none == <<>>
<1>n. none \in Seq(PlainFrames)
  BY <1>3
<1>5. /\ clients' \in [Slots -> ClientRecords] /\ mread' \in BOOLEAN
      /\ peer' \in [Slots -> PeerRecords]
      /\ stack' \in Seq(Frames) /\ EventDepth'
  <2> HIDE DEF none
  <2>1. ASSUME NEW calls \in Seq(PlainFrames), Sent(s, calls),
               UNCHANGED <<clients, mread, peer>>
        PROVE  /\ clients' \in [Slots -> ClientRecords] /\ mread' \in BOOLEAN
               /\ peer' \in [Slots -> PeerRecords]
               /\ stack' \in Seq(Frames) /\ EventDepth'
    BY <1>1, <1>4, <2>1, SentType DEF TypeInv, TypeOK
  <2>2. ASSUME ~ OverLimit(clients[s])
        PROVE  /\ Queued(clients[s]) \in ClientRecords
               /\ \A k \in 0..(clients[s].pend + 1) :
                     Flushed(Queued(clients[s]), k) \in ClientRecords
    <3>1. Queued(clients[s]) \in ClientRecords
      BY <1>3, <2>2, ClientTypes
    <3>2. Queued(clients[s]).pend = clients[s].pend + 1
      BY <1>3 DEF Queued, ClientRecords
    <3>3. QED
      BY <3>1, <3>2, ClientTypes
  <2>3. CASE Sent(s, none) /\ UNCHANGED <<clients, mread, peer>>
    BY <1>n, <2>1, <2>3
  <2>4. CASE /\ Sent(s, mclient_disconnect(s))
             /\ UNCHANGED <<clients, mread, peer>>
    BY <1>3, <2>1, <2>4
  <2>5. CASE /\ ~ OverLimit(clients[s])
             /\ QueueTo(s, Queued(clients[s]), mclient_disconnect(s))
    BY <1>1, <1>3, <1>4, <2>2, <2>5, QueueType
  <2>6. CASE /\ ~ OverLimit(clients[s])
             /\ \E k \in 0..(clients[s].pend + 1) :
                    QueueTo(s, Flushed(Queued(clients[s]), k), none)
    <3>1. PICK c \in ClientRecords : QueueTo(s, c, none)
      BY <2>2, <2>6
    <3>2. QED
      BY <1>1, <1>n, <1>4, <3>1, QueueType
  <2>7. QED
    BY <1>2, <2>3, <2>4, <2>5, <2>6, SMTT(30) DEF EnqueueTo, none
<1>6. QED
  BY <1>4, <1>5 DEF TypeInv, TypeOK, tty, process

\* A role is granted.
LEMMA RoleType ==
    ASSUME NEW cl \in [Slots -> ClientRecords], NEW s \in Slots, NEW role \in Roles
    PROVE  [cl EXCEPT ![s].role = role] \in [Slots -> ClientRecords]
<1>1. [cl[s] EXCEPT !.role = role] \in ClientRecords
  BY FieldTypes, Zenon
<1>2. QED
  BY <1>1

\* role_reassign.
LEMMA ReassignType ==
    ASSUME stack \in Seq(Frames), EventDepth, depth' = depth, stack # <<>>,
           Top.op # "event_end", NEW cl \in [Slots -> ClientRecords],
           role_reassign(cl)
    PROVE  /\ clients' \in [Slots -> ClientRecords]
           /\ stack' \in Seq(Frames) /\ EventDepth'
<1>1. CASE clients' = cl /\ Return(<<resize_call>>)
  <2> DEFINE fs == <<resize_call>>
  <2>1. fs \in Seq(PlainFrames) /\ Return(fs)
    BY <1>1, CallTypes, CallSeqTypes
  <2> HIDE DEF fs
  <2>2. stack' \in Seq(Frames) /\ EventDepth'
    BY <2>1, PlainStep
  <2>3. QED
    BY <1>1, <2>2
<1>2. CASE /\ Candidates(cl) # {}
           /\ clients' = [cl EXCEPT ![Min(Candidates(cl))].role = "WRITE"]
           /\ Return(role_change(Min(Candidates(cl)), "WRITE") \o <<resize_call>>)
  <2> DEFINE cands == Candidates(cl)
             cand == Min(cands)
             fs == role_change(cand, "WRITE") \o <<resize_call>>
  <2>1. cands \in SUBSET Slots
    BY DEF Candidates, Live
  <2>2. cand \in Slots
    <3>1. cands # {}
      BY <1>2
    <3> HIDE DEF cands
    <3>2. QED
      BY <2>1, <3>1, PickSlot
  <2>3. Return(fs) /\ clients' = [cl EXCEPT ![cand].role = "WRITE"]
    BY <1>2
  <2> HIDE DEF cand
  <2>4. fs \in Seq(PlainFrames)
    BY <2>2, CallTypes, CallSeqTypes DEF Roles
  <2>5. clients' \in [Slots -> ClientRecords]
    <3>1. "WRITE" \in Roles
      BY DEF Roles
    <3>2. [cl EXCEPT ![cand].role = "WRITE"] \in [Slots -> ClientRecords]
      BY <2>2, <3>1, RoleType
    <3>3. QED
      BY <2>3, <3>2
  <2> HIDE DEF fs
  <2>6. QED
    BY <2>3, <2>4, <2>5, PlainStep
<1>3. QED
  BY <1>1, <1>2 DEF role_reassign

\* mclient_disconnect.
LEMMA CloseType ==
    ASSUME TypeInv, stack # <<>>, Close
    PROVE  TypeInv'
<1> DEFINE s == Top.s
           left == [clients EXCEPT ![s] = Cleared(@)]
<1>1. Top \in Frames /\ stack \in Seq(Frames) /\ Top.op = "close" /\ EventDepth
  BY TopFrame DEF TypeInv, TypeOK, Close
<1>2. s \in Slots
  BY <1>1, FrameFields DEF ClientCalls
<1>3. clients \in [Slots -> ClientRecords] /\ peer \in [Slots -> PeerRecords]
  BY DEF TypeInv, TypeOK
<1>4. left \in [Slots -> ClientRecords]
  <2>1. Cleared(clients[s]) \in ClientRecords
    BY <1>2, <1>3, ClientTypes
  <2>2. QED
    BY <1>2, <1>3, <2>1
<1>5. peer' \in [Slots -> PeerRecords]
  <2>1. Stranger \in PeerRecords
    BY <1>2, <1>3, PeerTypes
  <2>2. QED
    BY <1>2, <1>3, <2>1 DEF Close
<1>6. mread' \in BOOLEAN
  BY DEF Close, update_master_interest
<1>7. upsets' \subseteq {"torn", "multi", "yielded"}
  BY DEF Close, TypeInv, TypeOK
<1>8. UNCHANGED <<depth, rows, tty, process>> /\ role_reassign(left)
  BY DEF Close
<1>9. clients' \in [Slots -> ClientRecords] /\ stack' \in Seq(Frames) /\ EventDepth'
  <2> HIDE DEF left
  <2>1. QED
    BY <1>1, <1>4, <1>8, ReassignType
<1>10. QED
  BY <1>5, <1>6, <1>7, <1>8, <1>9 DEF TypeInv, TypeOK, tty, process

\* resize_to_fit.
LEMMA ResizeType ==
    ASSUME TypeInv, stack # <<>>, Resize
    PROVE  TypeInv'
<1> DEFINE none == <<>>
<1>1. /\ stack \in Seq(Frames) /\ EventDepth /\ Return(none) /\ depth' = depth
      /\ none \in Seq(PlainFrames) /\ Top.op # "event_end"
  BY CallSeqTypes DEF TypeInv, TypeOK, Resize
<1> HIDE DEF none
<1>2. stack' \in Seq(Frames) /\ EventDepth'
  BY <1>1, PlainStep
<1>3. rows' \in Nat
  BY RowsType DEF Resize, TypeInv, TypeOK
<1>4. QED
  BY <1>2, <1>3 DEF Resize, TypeInv, TypeOK, tty, process

\* client_event.
LEMMA EventType ==
    ASSUME TypeInv, stack # <<>>, Event
    PROVE  TypeInv'
<1>1. /\ Top \in Frames /\ stack \in Seq(Frames) /\ EventDepth
      /\ Top.op = "event" /\ Top.op # "event_end"
  BY TopFrame DEF TypeInv, TypeOK, Event
<1>2. Top.s \in Slots /\ Top.v \in {"JOIN", "LEAVE", "ROLE"}
  BY <1>1, FrameFields DEF ClientCalls
<1>3. stack' \in Seq(Frames) /\ EventDepth'
  <2>1. CASE depth > 0
    <3> DEFINE none == <<>>
    <3>1. none \in Seq(PlainFrames) /\ Return(none) /\ depth' = depth
      BY <2>1, CallSeqTypes DEF Event
    <3> HIDE DEF none
    <3>2. QED
      BY <1>1, <3>1, PlainStep
  <2>2. CASE ~ (depth > 0)
    <3> DEFINE to == Audience(Top.s)
               sends == Sends(to, "EVENT", Top.v, Top.s)
               fs == sends \o <<event_end>>
    <3>1. to \in SUBSET Slots
      BY DEF Audience, Live
    <3>2. sends \in Seq(PlainFrames)
      <4>1. to # {} => send_all(to, "EVENT", Top.v, Top.s) \in PlainFrames
        BY <1>2, <3>1, CallTypes, ZenonT(30)
      <4>2. QED
        BY <4>1, CallSeqTypes DEF Sends
    <3>3. depth = 0 /\ depth' = 1
      BY <2>2, <1>1 DEF Event, EventDepth
    <3>4. Return(fs)
      BY <2>2 DEF Event
    <3> HIDE DEF sends
    <3>5. /\ sends \in Seq(Frames) /\ \A i \in DOMAIN sends : sends[i].op # "event_end"
          /\ event_end \in Frames /\ event_end.op = "event_end"
      BY <3>2, PlainSeq, CallTypes DEF event_end, Call
    <3>6. fs \in Seq(Frames)
      BY <3>5
    <3>7. /\ Len(fs) = Len(sends) + 1 /\ fs # <<>>
          /\ \A i \in DOMAIN fs : fs[i].op = "event_end" <=> i = Len(fs)
      BY <3>5
    <3> HIDE DEF fs
    <3>8. QED
      BY <1>1, <3>3, <3>4, <3>6, <3>7, ReturnType, StartReturn, SMTT(30)
  <2>3. QED
    BY <2>1, <2>2
<1>4. depth' \in Nat
  BY <1>3 DEF EventDepth
<1>5. QED
  BY <1>3, <1>4 DEF Event, TypeInv, TypeOK, tty, process

LEMMA EventEndType ==
    ASSUME TypeInv, stack # <<>>, EventEnd
    PROVE  TypeInv'
<1>1. /\ stack \in Seq(Frames) /\ EventDepth /\ depth' = depth - 1
      /\ Return(<<>>)
  BY DEF TypeInv, TypeOK, EventEnd
<1>2. stack[1].op = "event_end"
  BY HeadTailProperties DEF EventEnd, Top, TypeInv, TypeOK
<1>3. EventDepth' /\ depth' \in Nat
  BY <1>1, <1>2, EndReturn
<1>4. stack' \in Seq(Frames)
  <2> DEFINE none == <<>>
  <2>1. none \in Seq(Frames) /\ Return(none)
    BY <1>1, EmptySeq
  <2> HIDE DEF none
  <2>2. QED
    BY <1>1, <2>1, ReturnType
<1>5. QED
  BY <1>3, <1>4 DEF EventEnd, TypeInv, TypeOK, tty, process

\* The rest of the frames: none touches the count of announcements.
LEMMA PlainStepType ==
    ASSUME TypeInv, stack # <<>>, Top.op # "event_end", depth' = depth,
           NEW fs \in Seq(PlainFrames), Return(fs)
    PROVE  stack' \in Seq(Frames) /\ EventDepth'
<1>1. stack \in Seq(Frames) /\ EventDepth
  BY DEF TypeInv, TypeOK
<1>2. QED
  BY <1>1, PlainStep

\* role_for's loop over the other writers.
LEMMA DemoteType ==
    ASSUME TypeInv, stack # <<>>, Demote
    PROVE  TypeInv'
<1> DEFINE s == Top.s
           later == LaterWriters(s, Top.i)
           o == Min(later)
<1>1. Top \in Frames /\ Top.op = "demote" /\ Top.op # "event_end"
  BY TopFrame DEF TypeInv, TypeOK, Demote
<1>2. s \in Slots
  BY <1>1, FrameFields DEF ClientCalls
<1>3. UNCHANGED <<depth, mread, rows, tty, process, peer, upsets>>
  BY DEF Demote
<1>4. clients' \in [Slots -> ClientRecords] /\ stack' \in Seq(Frames) /\ EventDepth'
  <2>1. CASE later = {}
    <3> DEFINE none == <<>>
    <3>1. none \in Seq(PlainFrames) /\ Return(none) /\ clients' = clients
      BY <2>1, CallSeqTypes DEF Demote
    <3> HIDE DEF none
    <3>2. QED
      BY <1>1, <1>3, <3>1, PlainStepType DEF TypeInv, TypeOK
  <2>2. CASE later # {}
    <3> DEFINE fs == role_change(o, "VIEW") \o <<demote_loop(s, o)>>
    <3>1. later \in SUBSET Slots
      BY DEF LaterWriters, Writers, Live
    <3>2. clients' = [clients EXCEPT ![o].role = "VIEW"] /\ Return(fs)
      BY <2>2 DEF Demote
    <3> HIDE DEF later
    <3>3. o \in Slots
      BY <2>2, <3>1, PickSlot
    <3> HIDE DEF o
    <3>4. o \in 0..NSlots /\ "VIEW" \in Roles
      BY <3>3, ConstantsAssumption DEF Slots, Roles
    <3>5. /\ role_change(o, "VIEW") \in Seq(PlainFrames)
          /\ demote_loop(s, o) \in PlainFrames
      BY <1>2, <3>3, <3>4, CallTypes, CallSeqTypes, Zenon
    <3>6. fs \in Seq(PlainFrames)
      BY <3>5, CallSeqTypes
    <3> HIDE DEF fs
    <3>7. stack' \in Seq(Frames) /\ EventDepth'
      BY <1>1, <1>3, <3>2, <3>6, PlainStepType
    <3>8. clients \in [Slots -> ClientRecords]
      BY DEF TypeInv, TypeOK
    <3>9. QED
      BY <3>2, <3>3, <3>4, <3>7, <3>8, RoleType
  <2>3. QED
    BY <2>1, <2>2
<1>5. QED
  BY <1>3, <1>4 DEF TypeInv, TypeOK, tty, process

\* on_new_client, from the role on.
LEMMA AttachStepsType ==
    ASSUME TypeInv, stack # <<>>, AttachRole \/ AttachReady \/ AttachEcho
    PROVE  TypeInv'
<1> DEFINE s == Top.s
<1>1. /\ Top \in Frames /\ Top.op # "event_end"
      /\ Top.op \in {"attach_role", "attach_ready", "attach_flags"}
  BY TopFrame DEF TypeInv, TypeOK, AttachRole, AttachReady, AttachEcho
<1>2. s \in Slots /\ (Top.op = "attach_role" => Top.v \in Roles)
  BY <1>1, FrameFields DEF ClientCalls
<1>3. clients \in [Slots -> ClientRecords] /\ rows \in Nat /\ echo \in Echoes
  BY DEF TypeInv, TypeOK
<1>4. CASE AttachRole
  <2> DEFINE fs == <<mclient_enqueue(s, "REPLY", Top.v), attach_ready(s)>>
  <2>1. Top.v \in Roles
    BY <1>2, <1>4 DEF AttachRole
  <2>2. mclient_enqueue(s, "REPLY", Top.v) \in PlainFrames
    BY <1>2, <2>1, MessageTypes
  <2>3. fs \in Seq(PlainFrames)
    BY <1>2, <2>2, CallTypes
  <2>4. Return(fs) /\ depth' = depth
    BY <1>4 DEF AttachRole
  <2> HIDE DEF fs
  <2>5. stack' \in Seq(Frames) /\ EventDepth'
    BY <1>1, <2>3, <2>4, PlainStepType
  <2>6. clients' \in [Slots -> ClientRecords]
    BY <1>2, <1>3, <1>4, <2>1, RoleType DEF AttachRole
  <2>7. rows' \in Nat
    BY <1>3, <1>4, RowsType DEF AttachRole
  <2>8. QED
    BY <1>4, <2>5, <2>6, <2>7 DEF AttachRole, TypeInv, TypeOK, tty, process
<1>5. CASE AttachReady
  <2> DEFINE fs == <<mclient_enqueue(s, "OUTPUT", "-"), client_event(s, "JOIN"),
                     attach_flags(s)>>
  <2>1. mclient_enqueue(s, "OUTPUT", "-") \in PlainFrames
    BY <1>2, MessageTypes
  <2>2. client_event(s, "JOIN") \in PlainFrames /\ attach_flags(s) \in PlainFrames
    BY <1>2, CallTypes
  <2>3. fs \in Seq(PlainFrames)
    BY <2>1, <2>2
  <2>4. Return(fs) /\ depth' = depth
    BY <1>5 DEF AttachReady
  <2> HIDE DEF fs
  <2>5. stack' \in Seq(Frames) /\ EventDepth'
    BY <1>1, <2>3, <2>4, PlainStepType
  <2>6. [clients[s] EXCEPT !.ready = TRUE] \in ClientRecords
    BY <1>2, <1>3, FieldTypes, Zenon
  <2>7. clients' = [clients EXCEPT ![s] = [clients[s] EXCEPT !.ready = TRUE]]
    BY <1>5 DEF AttachReady
  <2>8. clients' \in [Slots -> ClientRecords]
    BY <1>2, <1>3, <2>6, <2>7
  <2>9. QED
    BY <1>5, <2>5, <2>8 DEF AttachReady, TypeInv, TypeOK, tty, process
<1>6. CASE AttachEcho
  <2> DEFINE fs == <<mclient_enqueue(s, "PTY_FLAGS", echo)>>
  <2>1. mclient_enqueue(s, "PTY_FLAGS", echo) \in PlainFrames
    BY <1>2, <1>3, MessageTypes
  <2>2. fs \in Seq(PlainFrames)
    BY <2>1
  <2>3. Return(fs) /\ depth' = depth
    BY <1>6 DEF AttachEcho
  <2> HIDE DEF fs
  <2>4. stack' \in Seq(Frames) /\ EventDepth'
    BY <1>1, <2>2, <2>3, PlainStepType
  <2>5. QED
    BY <1>6, <2>4 DEF AttachEcho, TypeInv, TypeOK, tty, process
<1>7. QED
  BY <1>4, <1>5, <1>6

\* IPC_MSG_ROLE_REQUEST, from the grant on.
LEMMA RequestRoleType ==
    ASSUME TypeInv, stack # <<>>, RequestRole
    PROVE  TypeInv'
<1> DEFINE s == Top.s
           fs == IF Top.v = clients[s].role THEN <<>> ELSE role_change(s, Top.v)
<1>1. Top \in Frames /\ Top.op = "request_role" /\ Top.op # "event_end"
  BY TopFrame DEF TypeInv, TypeOK, RequestRole
<1>2. s \in Slots /\ Top.v \in Roles /\ Top.f \in SUBSET Flags
  BY <1>1, FrameFields DEF ClientCalls
<1>3. clients \in [Slots -> ClientRecords] /\ rows \in Nat
  BY DEF TypeInv, TypeOK
<1>4. fs \in Seq(PlainFrames)
  BY <1>2, CallSeqTypes
<1>5. Return(fs) /\ depth' = depth
  BY DEF RequestRole
<1> HIDE DEF fs
<1>6. stack' \in Seq(Frames) /\ EventDepth'
  BY <1>1, <1>4, <1>5, PlainStepType
<1>7. [clients[s] EXCEPT !.flags = Top.f, !.role = Top.v] \in ClientRecords
  BY <1>2, <1>3, FieldTypes, Zenon
<1>8. clients' = [clients EXCEPT ![s] = [clients[s] EXCEPT !.flags = Top.f,
                                                           !.role = Top.v]]
  BY <1>2, <1>3, Zenon DEF RequestRole, ClientRecords
<1>9. clients' \in [Slots -> ClientRecords]
  BY <1>2, <1>3, <1>7, <1>8
<1>10. rows' \in Nat
  BY <1>3, <1>9, RowsType, Zenon DEF RequestRole
<1>11. upsets' \subseteq {"torn", "multi", "yielded"}
  BY DEF RequestRole, TypeInv, TypeOK
<1>12. QED
  BY <1>6, <1>9, <1>10, <1>11 DEF RequestRole, TypeInv, TypeOK, tty, process

\* The end of a handler of KILL, and disconnect_all.
LEMMA StopStepsType ==
    ASSUME TypeInv, stack # <<>>, StopLoop \/ DisconnectAll
    PROVE  TypeInv'
<1> DEFINE none == <<>>
<1>1. Top \in Frames /\ Top.op \in {"stop", "disconnect_all"}
  BY TopFrame DEF TypeInv, TypeOK, StopLoop, DisconnectAll
<1>2. none \in Seq(PlainFrames) /\ depth' = depth /\ Top.op # "event_end"
  BY <1>1, CallSeqTypes DEF StopLoop, DisconnectAll
<1>3. CASE StopLoop
  <2>1. Return(none)
    BY <1>3 DEF StopLoop
  <2> HIDE DEF none
  <2>2. stack' \in Seq(Frames) /\ EventDepth'
    BY <1>2, <2>1, PlainStepType
  <2>3. QED
    BY <1>3, <2>2 DEF StopLoop, TypeInv, TypeOK, tty
<1>4. CASE DisconnectAll
  <2> DEFINE i == Top.i
             fs == Append(mclient_disconnect(i), disconnect_all(i + 1))
  <2>1. i \in 0..(NSlots + 1) /\ i # 0
    BY <1>1, <1>4, FrameFields DEF DisconnectAll
  <2>2. CASE i <= NSlots
    <3>1. i \in Slots /\ i + 1 \in 1..(NSlots + 1)
      BY <2>1, <2>2, ConstantsAssumption DEF Slots
    <3>2. Return(fs) /\ UNCHANGED <<phase, listener>>
      BY <1>4, <2>2 DEF DisconnectAll
    <3>3. fs \in Seq(PlainFrames)
      BY <3>1, CallTypes, CallSeqTypes
    <3> HIDE DEF fs
    <3>4. stack' \in Seq(Frames) /\ EventDepth'
      BY <1>2, <3>2, <3>3, PlainStepType
    <3>5. QED
      BY <1>4, <3>2, <3>4 DEF DisconnectAll, TypeInv, TypeOK, tty
  <2>3. CASE ~ (i <= NSlots)
    <3>1. Return(none) /\ phase' = "down" /\ listener' = "closed"
      BY <1>4, <2>3 DEF DisconnectAll
    <3> HIDE DEF none
    <3>2. stack' \in Seq(Frames) /\ EventDepth'
      BY <1>2, <3>1, PlainStepType
    <3>3. QED
      BY <1>4, <3>1, <3>2 DEF DisconnectAll, TypeInv, TypeOK, tty
  <2>4. QED
    BY <2>2, <2>3
<1>5. QED
  BY <1>3, <1>4

LEMMA StepType ==
    ASSUME TypeInv, Step
    PROVE  TypeInv'
BY EnqueueType, CloseType, ResizeType, EventType, EventEndType, DemoteType,
   AttachStepsType, RequestRoleType, StopStepsType DEF Step
-----------------------------------------------------------------------------
(* The events.                                                              *)

LEMMA PlainEventType ==
    ASSUME TypeInv, stack = <<>>, depth' = depth, stack' \in Seq(PlainFrames)
    PROVE  stack' \in Seq(Frames) /\ EventDepth'
BY PlainEvent DEF TypeInv

\* role_for, with the loop of a token claim.
LEMMA RoleForType ==
    ASSUME NEW s \in Slots, NEW f \in SUBSET Flags
    PROVE  role_for(s, f) \in Roles /\ TokenClaim(s, f) \in Seq(PlainFrames)
<1>1. role_for(s, f) \in Roles
  BY DEF role_for, Roles
<1>2. 0 \in 0..NSlots
  BY ConstantsAssumption
<1>3. TokenClaim(s, f) \in Seq(PlainFrames)
  BY <1>2, CallTypes, CallSeqTypes DEF TokenClaim
<1>4. QED
  BY <1>1, <1>3

LEMMA AttachType ==
    ASSUME TypeInv, NEW p \in Procs, NEW f \in AttachFlags, NEW r \in Sizes,
           Attach(p, f, r)
    PROVE  TypeInv'
<1> DEFINE free == Slots \ Live(clients)
           s == Min(free)
           fs == TokenClaim(s, f) \o <<grant_attach(s, role_for(s, f))>>
<1>1. f \in SUBSET Flags /\ r \in Nat
  BY ConstantsAssumption DEF Flags
<1>2. free \in SUBSET Slots /\ free # {}
  BY DEF Attach, Live
<1>3. /\ stack = <<>> /\ stack' = fs /\ depth' = depth
      /\ clients' = [clients EXCEPT ![s] = mclient_alloc(@, p, f, r)]
      /\ peer' = [t \in Slots |->
                     IF t = s THEN [Stranger EXCEPT !.seen = Live(clients)]
                     ELSE [peer[t] EXCEPT !.seen = @ \ {s}]]
      /\ upsets' = upsets \cup Shared(f)
  BY DEF Attach, Idle
<1> HIDE DEF free
<1>4. s \in Slots
  BY <1>2, PickSlot
<1> HIDE DEF s
<1>5. fs \in Seq(PlainFrames)
  <2>1. grant_attach(s, role_for(s, f)) \in PlainFrames
    BY <1>1, <1>4, RoleForType, CallTypes
  <2>2. TokenClaim(s, f) \in Seq(PlainFrames)
    BY <1>1, <1>4, RoleForType
  <2>3. QED
    BY <2>1, <2>2, CallSeqTypes
<1> HIDE DEF fs
<1>6. stack' \in Seq(Frames) /\ EventDepth'
  BY <1>3, <1>5, PlainEventType
<1>7. clients' \in [Slots -> ClientRecords]
  <2>1. clients \in [Slots -> ClientRecords]
    BY DEF TypeInv, TypeOK
  <2>2. mclient_alloc(clients[s], p, f, r) \in ClientRecords
    BY <1>1, <1>4, <2>1, ClientTypes, Zenon
  <2>3. QED
    BY <1>3, <1>4, <2>1, <2>2
<1>8. peer' \in [Slots -> PeerRecords]
  <2>1. peer \in [Slots -> PeerRecords] /\ Live(clients) \in SUBSET Slots
    BY DEF TypeInv, TypeOK, Live
  <2>2. Stranger \in PeerRecords
    BY <1>4, <2>1, PeerTypes
  <2>3. [Stranger EXCEPT !.seen = Live(clients)] \in PeerRecords
    BY <2>1, <2>2, PeerTypes
  <2>4. \A t \in Slots : [peer[t] EXCEPT !.seen = @ \ {s}] \in PeerRecords
    BY <2>1, PeerTypes, Zenon
  <2>5. QED
    BY <1>3, <2>3, <2>4
<1>9. upsets' \subseteq {"torn", "multi", "yielded"}
  BY <1>3 DEF Shared, TypeInv, TypeOK
<1>10. UNCHANGED <<depth, mread, rows, tty, process>>
  BY DEF Attach
<1>11. QED
  BY <1>6, <1>7, <1>8, <1>9, <1>10 DEF TypeInv, TypeOK, tty, process

\* Events that only start calls: RoleRequest, Deny, Refresh, Attr, Leave, Kill.
LEMMA CallsType ==
    ASSUME TypeInv, NEW s \in Slots,
           \/ \E f \in AttachFlags : RoleRequest(s, f)
           \/ \E type \in msg_mutates : Deny(s, type)
           \/ Refresh(s) \/ Attr(s) \/ Leave(s) \/ Kill(s)
    PROVE  TypeInv'
<1>1. /\ stack = <<>> /\ depth' = depth
      /\ UNCHANGED <<clients, mread, rows, tty, process>>
  BY Zenon DEF RoleRequest, Deny, Refresh, Attr, Leave, Kill, Receive, Idle
<1>2. /\ stack' \in Seq(PlainFrames)
      /\ peer' \in [Slots -> PeerRecords]
      /\ upsets' \subseteq {"torn", "multi", "yielded"}
  <2>0. peer \in [Slots -> PeerRecords] /\ upsets \subseteq {"torn", "multi", "yielded"}
    BY DEF TypeInv, TypeOK
  <2>1. ASSUME NEW f \in AttachFlags, RoleRequest(s, f)
        PROVE  <1>2!:
    <3>1. f \in SUBSET Flags
      BY ConstantsAssumption DEF Flags
    <3>2. grant_request(s, role_for(s, f), f) \in PlainFrames
      BY <3>1, RoleForType, CallTypes
    <3>3. TokenClaim(s, f) \in Seq(PlainFrames)
      BY <3>1, RoleForType
    <3>4. stack' \in Seq(PlainFrames)
      BY <2>1, <3>2, <3>3, CallSeqTypes, Zenon DEF RoleRequest
    <3>5. QED
      BY <2>0, <2>1, <3>4, Zenon DEF RoleRequest, Shared
  <2>2. ASSUME NEW type \in msg_mutates, Deny(s, type)
        PROVE  <1>2!:
    <3>1. stack' \in Seq(PlainFrames)
      BY <2>2, MessageTypes, CallSeqTypes, Zenon DEF Deny
    <3>2. peer' = [peer EXCEPT ![s] = Bracket(peer[s], type)] /\ upsets' = upsets
      BY <2>2 DEF Deny
    <3>3. Bracket(peer[s], type) \in PeerRecords
      BY <2>0, PeerTypes
    <3>4. QED
      BY <2>0, <3>1, <3>2, <3>3
  <2>3. CASE Refresh(s) \/ Attr(s)
    <3>1. stack' \in Seq(PlainFrames)
      BY <2>3, MessageTypes, CallSeqTypes, Zenon DEF Refresh, Attr
    <3>2. QED
      BY <2>0, <2>3, <3>1, Zenon DEF Refresh, Attr
  <2>4. CASE Leave(s) \/ Kill(s)
    <3>1. mclient_disconnect(s) \in Seq(PlainFrames) /\ stop_loop \in PlainFrames
      BY CallTypes, CallSeqTypes
    <3>2. stack' \in Seq(PlainFrames)
      BY <2>4, <3>1, CallSeqTypes DEF Leave, Kill
    <3>3. QED
      BY <2>0, <2>4, <3>2, Zenon DEF Leave, Kill
  <2>5. QED
    BY <2>1, <2>2, <2>3, <2>4
<1>3. stack' \in Seq(Frames) /\ EventDepth'
  BY <1>1, <1>2, PlainEventType
<1>4. QED
  BY <1>1, <1>2, <1>3 DEF TypeInv, TypeOK, tty, process

\* The three input messages.
LEMMA InputType ==
    ASSUME TypeInv, NEW s \in Slots, Input(s) \/ InputBegin(s) \/ InputEnd(s)
    PROVE  TypeInv'
<1> DEFINE none == <<>>
<1>0. /\ clients \in [Slots -> ClientRecords] /\ clients[s].inq \in Seq(Procs)
      /\ clients[s].id \in Procs /\ peer \in [Slots -> PeerRecords]
      /\ typed \in Seq(Procs) /\ none \in Seq(Procs)
  <2>1. /\ clients \in [Slots -> ClientRecords] /\ peer \in [Slots -> PeerRecords]
        /\ typed \in Seq(Procs)
    BY DEF TypeInv, TypeOK
  <2>2. clients[s] \in ClientRecords
    BY <2>1
  <2>3. clients[s].inq \in Seq(Procs) /\ clients[s].id \in Procs
    BY <2>2, Zenon DEF ClientRecords
  <2>4. none \in Seq(Procs)
    OBVIOUS
  <2>5. QED
    BY <2>1, <2>3, <2>4
<1>1. /\ stack = <<>> /\ depth' = depth
      /\ UNCHANGED <<mread, rows, echo, lastflags, process, upsets>>
  BY DEF Input, InputBegin, InputEnd, Receive, Idle, tty
<1>2. /\ clients' \in [Slots -> ClientRecords] /\ typed' \in Seq(Procs)
      /\ peer' \in [Slots -> PeerRecords] /\ stack' \in Seq(PlainFrames)
  <2>1. CASE Input(s)
    <3>1. \/ /\ clients' = [clients EXCEPT ![s] = [clients[s] EXCEPT !.inq =
                                  Append(clients[s].inq, clients[s].id)]]
             /\ UNCHANGED <<typed, stack>>
          \/ stack' = mclient_disconnect(s) /\ UNCHANGED <<typed, clients>>
          \/ typed' = <<clients[s].id>> /\ UNCHANGED <<stack, clients>>
      BY <1>0, <2>1 DEF Input
    <3>2. [clients[s] EXCEPT !.inq = Append(clients[s].inq, clients[s].id)]
              \in ClientRecords
      <4>1. Append(clients[s].inq, clients[s].id) \in Seq(Procs)
        BY <1>0
      <4>2. QED
        BY <1>0, <4>1, FieldTypes, Zenon
    <3>3. clients' \in [Slots -> ClientRecords]
      BY <1>0, <3>1, <3>2, Zenon
    <3>4. typed' \in Seq(Procs)
      <4>1. <<clients[s].id>> \in Seq(Procs)
        BY <1>0
      <4>2. typed' = typed \/ typed' = <<clients[s].id>>
        BY <3>1, Zenon
      <4>3. QED
        BY <1>0, <4>1, <4>2, Zenon
    <3>5. stack' \in Seq(PlainFrames)
      BY <1>1, <3>1, CallSeqTypes, Zenon
    <3>6. QED
      BY <1>0, <2>1, <3>3, <3>4, <3>5 DEF Input
  <2>2. CASE InputBegin(s) \/ InputEnd(s)
    <3>1. PICK b \in BOOLEAN, type \in {"INPUT_BEGIN", "INPUT_END"} :
              /\ clients' = [clients EXCEPT ![s] = [clients[s] EXCEPT
                                            !.inq = none, !.inrun = b]]
              /\ peer' = [peer EXCEPT ![s] = Bracket(peer[s], type)]
      <4>1. CASE InputBegin(s)
        BY <1>0, <4>1, Zenon DEF InputBegin
      <4>2. CASE InputEnd(s)
        BY <1>0, <4>2, Zenon DEF InputEnd
      <4>3. QED
        BY <2>2, <4>1, <4>2, Zenon
    <3>2. stack' = stack /\ typed' \in Seq(Procs)
      BY <1>0, <2>2 DEF InputBegin, InputEnd, tty
    <3> HIDE DEF none
    <3>3. [clients[s] EXCEPT !.inq = none, !.inrun = b] \in ClientRecords
      BY <1>0, <3>1, FieldTypes, Zenon
    <3>4. clients' \in [Slots -> ClientRecords]
      BY <1>0, <3>1, <3>3
    <3>5. Bracket(peer[s], type) \in PeerRecords
      BY <1>0, PeerTypes
    <3>6. peer' \in [Slots -> PeerRecords]
      BY <1>0, <3>1, <3>5
    <3>7. stack' \in Seq(PlainFrames)
      BY <1>1, <3>2, CallSeqTypes
    <3>8. QED
      BY <3>2, <3>4, <3>6, <3>7
  <2>3. QED
    BY <2>1, <2>2
<1>3. stack' \in Seq(Frames) /\ EventDepth'
  BY <1>1, <1>2, PlainEventType
<1>4. QED
  BY <1>1, <1>2, <1>3 DEF TypeInv, TypeOK, process

\* FLOW_CTRL and WIN_RESIZE.
LEMMA FieldEventType ==
    ASSUME TypeInv, NEW s \in Slots,
           \/ \E pause \in BOOLEAN : FlowCtrl(s, pause)
           \/ \E r \in Sizes : WinResize(s, r)
    PROVE  TypeInv'
<1>1. clients \in [Slots -> ClientRecords] /\ clients[s] \in ClientRecords /\ rows \in Nat
  BY DEF TypeInv, TypeOK
<1>2. /\ stack = <<>> /\ UNCHANGED <<stack, depth, tty, process, peer, upsets>>
  BY DEF FlowCtrl, WinResize, Receive, Idle
<1>3. stack' \in Seq(Frames) /\ EventDepth'
  <2>1. stack' \in Seq(PlainFrames)
    BY <1>2, CallSeqTypes
  <2>2. QED
    BY <1>2, <2>1, PlainEventType
<1>4. ASSUME NEW pause \in BOOLEAN, FlowCtrl(s, pause)
      PROVE  TypeInv'
  <2>1. [clients[s] EXCEPT !.paused = pause] \in ClientRecords
    BY <1>1, FieldTypes, Zenon
  <2>2. clients' = [clients EXCEPT ![s] = [clients[s] EXCEPT !.paused = pause]]
    BY <1>1, <1>4 DEF FlowCtrl
  <2>3. clients' \in [Slots -> ClientRecords]
    BY <1>1, <2>1, <2>2
  <2>4. mread' \in BOOLEAN /\ rows' = rows
    BY <1>4 DEF FlowCtrl, update_master_interest
  <2>5. QED
    BY <1>2, <1>3, <2>3, <2>4 DEF TypeInv, TypeOK, tty, process
<1>5. ASSUME NEW r \in Sizes, WinResize(s, r)
      PROVE  TypeInv'
  <2>1. [clients[s] EXCEPT !.rows = r] \in ClientRecords
    BY <1>1, FieldTypes, ConstantsAssumption, Zenon
  <2>2. clients' = [clients EXCEPT ![s] = [clients[s] EXCEPT !.rows = r]]
    BY <1>1, <1>5 DEF WinResize
  <2>3. clients' \in [Slots -> ClientRecords]
    BY <1>1, <2>1, <2>2
  <2>4. rows' \in Nat /\ mread' = mread
    BY <1>1, <1>5, <2>3, RowsType, Zenon DEF WinResize
  <2>5. QED
    BY <1>2, <1>3, <2>3, <2>4 DEF TypeInv, TypeOK, tty, process
<1>6. QED
  BY <1>4, <1>5

LEMMA WritableType ==
    ASSUME TypeInv, NEW s \in Slots, Writable(s)
    PROVE  TypeInv'
<1>1. clients \in [Slots -> ClientRecords] /\ clients[s] \in ClientRecords
  BY DEF TypeInv, TypeOK
<1>2. stack = <<>> /\ UNCHANGED <<depth, rows, tty, process, peer, upsets>>
  BY DEF Writable, Idle
<1>3. stack' \in Seq(PlainFrames)
  BY <1>2, CallSeqTypes, Zenon DEF Writable
<1>4. stack' \in Seq(Frames) /\ EventDepth'
  BY <1>2, <1>3, PlainEventType
<1>5. clients' \in [Slots -> ClientRecords]
  <2>1. \/ clients' = clients
        \/ \E k \in 1..clients[s].pend :
               clients' = [clients EXCEPT ![s] = Flushed(clients[s], k)]
    BY DEF Writable
  <2>2. ASSUME NEW k \in 1..clients[s].pend,
               clients' = [clients EXCEPT ![s] = Flushed(clients[s], k)]
        PROVE  clients' \in [Slots -> ClientRecords]
    <3>1. clients[s].pend \in Nat
      BY <1>1, ConstantsAssumption DEF ClientRecords
    <3>2. k \in 0..clients[s].pend
      BY <3>1
    <3>3. Flushed(clients[s], k) \in ClientRecords
      BY <1>1, <3>2, ClientTypes
    <3>4. QED
      BY <1>1, <2>2, <3>3
  <2>3. QED
    BY <1>1, <2>1, <2>2
<1>6. mread' \in BOOLEAN
  BY Zenon DEF Writable, update_master_interest, TypeInv, TypeOK
<1>7. QED
  BY <1>2, <1>4, <1>5, <1>6 DEF TypeInv, TypeOK, tty, process

LEMMA MasterReadType ==
    ASSUME TypeInv, MasterRead
    PROVE  TypeInv'
<1> DEFINE to == Live(clients)
           flags == Sends(to, "PTY_FLAGS", echo, 0)
           output == Sends(to, "OUTPUT", "-", 0)
<1>1. /\ stack = <<>>
      /\ UNCHANGED <<clients, depth, mread, rows, echo, listener, mode, typed,
                     peer, upsets>>
  BY DEF MasterRead, Idle
<1>2. echo \in Echoes /\ lastflags \in Echoes \cup {"unset"}
      /\ phase \in {"run", "stopping", "cleanup", "down"}
  BY DEF TypeInv, TypeOK
<1>3. to \in SUBSET Slots /\ 0 \in 0..NSlots
  BY ConstantsAssumption DEF Live
<1>4. /\ phase' \in {"run", "stopping", "cleanup", "down"}
      /\ lastflags' \in Echoes \cup {"unset"}
      /\ \/ stack' = stack \/ stack' = flags \o output \/ stack' = <<>> \o output
  BY <1>2, Zenon DEF MasterRead
<1>5. flags \in Seq(PlainFrames) /\ output \in Seq(PlainFrames)
  <2> HIDE DEF to
  <2>1. to # {} => /\ send_all(to, "PTY_FLAGS", echo, 0) \in PlainFrames
                   /\ send_all(to, "OUTPUT", "-", 0) \in PlainFrames
    BY <1>2, <1>3, CallTypes, Zenon
  <2>2. QED
    BY <2>1, CallSeqTypes DEF Sends
<1> HIDE DEF flags, output
<1>6. stack' \in Seq(PlainFrames)
  BY <1>1, <1>4, <1>5, CallSeqTypes, Zenon
<1>7. stack' \in Seq(Frames) /\ EventDepth'
  BY <1>1, <1>6, PlainEventType
<1>8. QED
  BY <1>1, <1>4, <1>7 DEF TypeInv, TypeOK

\* The application, the session directory, the signals and the end.
LEMMA OutsideType ==
    ASSUME TypeInv,
           \/ EchoChange \/ ModeChange \/ StopRequest \/ DirRemoved \/ Sighup
           \/ Cleanup
    PROVE  TypeInv'
<1>1. /\ stack = <<>>
      /\ UNCHANGED <<clients, depth, mread, rows, lastflags, typed, peer, upsets>>
  BY DEF EchoChange, ModeChange, StopRequest, DirRemoved, Sighup, Cleanup, Idle, tty
<1>2. /\ echo' \in Echoes /\ mode' \in Modes
      /\ phase' \in {"run", "stopping", "cleanup", "down"}
      /\ listener' \in {"reachable", "nameless", "closed"}
  BY DEF EchoChange, ModeChange, StopRequest, DirRemoved, Sighup, Cleanup, tty,
         process, TypeInv, TypeOK
<1>3. stack' \in Seq(PlainFrames)
  <2>1. stack' = stack \/ stack' = <<disconnect_all(1)>>
    BY DEF EchoChange, ModeChange, StopRequest, DirRemoved, Sighup, Cleanup
  <2>2. 1 \in 1..(NSlots + 1)
    BY ConstantsAssumption
  <2>3. disconnect_all(1) \in PlainFrames
    BY <2>2, CallTypes
  <2>4. QED
    BY <1>1, <2>1, <2>3, CallSeqTypes, Zenon
<1>4. stack' \in Seq(Frames) /\ EventDepth'
  BY <1>1, <1>3, PlainEventType
<1>5. QED
  BY <1>1, <1>2, <1>4, SMTT(30) DEF TypeInv, TypeOK

LEMMA InitType == Init => TypeInv
<1> SUFFICES ASSUME Init PROVE TypeInv
  OBVIOUS
<1> DEFINE p == CHOOSE q \in Procs : TRUE
<1>1. p \in Procs
  BY ConstantsAssumption
<1>2. FreeSlot(p) \in ClientRecords
  <2> HIDE DEF p
  <2>1. 0 \in 0..Hard /\ <<>> \in Seq(Procs)
    BY ConstantsAssumption
  <2>2. QED
    BY <1>1, <2>1 DEF FreeSlot, ClientRecords, Roles
<1>3. clients \in [Slots -> ClientRecords]
  BY <1>2, SMTT(30) DEF Init
<1>4. peer \in [Slots -> PeerRecords]
  BY DEF Init, Stranger, PeerRecords, Roles
<1>5. stack \in Seq(Frames) /\ typed \in Seq(Procs)
  BY DEF Init
<1>6. EventDepth
  BY DEF Init, EventDepth
<1>7. QED
  BY <1>3, <1>4, <1>5, <1>6 DEF Init, TypeInv, TypeOK

LEMMA NextType ==
    ASSUME TypeInv, [Next]_vars
    PROVE  TypeInv'
<1>1. CASE Step
  BY <1>1, StepType
<1>2. ASSUME NEW p \in Procs, NEW f \in AttachFlags, NEW r \in Sizes,
             Attach(p, f, r)
      PROVE  TypeInv'
  BY <1>2, AttachType
<1>3. ASSUME NEW s \in Slots, Message(s)
      PROVE  TypeInv'
  <2>1. CASE \/ \E f \in AttachFlags : RoleRequest(s, f)
             \/ \E type \in msg_mutates : Deny(s, type)
             \/ Refresh(s) \/ Attr(s) \/ Leave(s) \/ Kill(s)
    BY <2>1, CallsType
  <2>2. CASE Input(s) \/ InputBegin(s) \/ InputEnd(s)
    BY <2>2, InputType
  <2>3. CASE \/ \E pause \in BOOLEAN : FlowCtrl(s, pause)
             \/ \E r \in Sizes : WinResize(s, r)
    BY <2>3, FieldEventType
  <2>4. QED
    BY <1>3, <2>1, <2>2, <2>3, Zenon DEF Message
<1>4. ASSUME NEW s \in Slots, Writable(s)
      PROVE  TypeInv'
  BY <1>4, WritableType
<1>5. CASE MasterRead
  BY <1>5, MasterReadType
<1>6. CASE \/ EchoChange \/ ModeChange \/ StopRequest \/ DirRemoved \/ Sighup
           \/ Cleanup
  BY <1>6, OutsideType
<1>7. CASE Down \/ UNCHANGED vars
  BY <1>7, Zenon DEF Down, vars, TypeInv, TypeOK, EventDepth
<1>8. QED
  BY <1>1, <1>2, <1>3, <1>4, <1>5, <1>6, <1>7, Zenon DEF Next

\* Whatever the number of slots, limits, flags and sizes, and whichever sends
\* fail: the state of the server is well formed.  In particular a send never
\* leaves more than the hard limit in a client's queue (mclient_enqueue).
THEOREM TypeCorrect == Spec => []TypeOK
<1>1. TypeInv => TypeOK
  BY DEF TypeInv
<1>2. QED
  BY InitType, NextType, <1>1, PTL DEF Spec

\* client_event is entered at most once at a time, and client_event_depth is
\* back at zero whenever no announcement is in progress, through every nested
\* disconnection.
THEOREM DepthCorrect == Spec => []EventDepth
<1>1. TypeInv => EventDepth
  BY DEF TypeInv
<1>2. QED
  BY InitType, NextType, <1>1, PTL DEF Spec
=============================================================================
