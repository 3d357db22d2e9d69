------------------------------ MODULE MServer ------------------------------
(***************************************************************************)
(* One lumi-mserver process (src/cmd/mserver/mserver.c): the table of       *)
(* attached clients, their output queues and backpressure, the keyboard     *)
(* role, the size vote, bracketed input runs, presence events, the PTY echo *)
(* flag and the life of the process.                                        *)
(*                                                                          *)
(* The server is single threaded: a handler of the event loop runs to its   *)
(* end before the next one starts.  But a handler is not one step.  Any     *)
(* send may find the peer gone, which disconnects that client, which        *)
(* announces it to the others and may pass the keyboard on: more sends,     *)
(* which may fail in turn, in the middle of the handler that started it.    *)
(* `stack' is the C call stack of these nested calls, innermost first: an   *)
(* event is handled only when it is empty, and Step executes its first      *)
(* frame up to the next call.  The outcome of each send is left open.       *)
(***************************************************************************)
EXTENDS Naturals, Sequences, FiniteSetsExt

CONSTANTS
    NSlots,         \* MCLIENT_MAX, the size of the client table
    Procs,          \* the client programs, named by their client_id
    AttachFlags,    \* the flag sets an ATTACH or a ROLE_REQUEST carries
    Sizes,          \* the heights a client asks for; 0 is "no size"
    Events,         \* the kinds of event that happen in an instance
    Modes,          \* the values MODE takes in the session's control file
    Echoes,         \* the values the application gives the ECHO flag
    Low, High, Hard,\* outq low water, high water and hard limit, in messages
    InrunLimit      \* INRUN_HARD_LIMIT, in messages

ASSUME ConstantsAssumption ==
    /\ NSlots \in Nat \ {0} /\ Procs # {}
    /\ Sizes \subseteq Nat
    /\ AttachFlags \subseteq SUBSET {"VIEW", "OBSERVE", "TOKEN", "INJECT"}
    /\ Modes \subseteq {"single", "multi"} /\ Modes # {}
    /\ Echoes \subseteq {"on", "off"} /\ Echoes # {}
    /\ Low \in Nat /\ High \in Nat /\ Hard \in Nat /\ InrunLimit \in Nat
    /\ Low < High /\ High <= Hard

VARIABLES
    clients,    \* the table: struct mclient clients[MCLIENT_MAX]
    stack,      \* the nested calls in progress, innermost first
    depth,      \* client_event_depth
    mread,      \* the loop watches the PTY master for input
    rows,       \* the height of the window
    echo,       \* the ECHO flag of the PTY, set by the application
    lastflags,  \* last_pty_flags; "unset" stands for -1
    phase,      \* "run", "stopping" (loop->running is 0), "cleanup", "down"
    listener,   \* "reachable", "nameless" (its path was removed), "closed"
    mode,       \* MODE in the session's control file
    typed,      \* the last write to the PTY, each byte by its client_id
    peer,       \* history: what the client of each slot was told, and sent
    upsets      \* history: what ends the promise of one writer (see OneWriter)

Slots == 1..NSlots
Flags == {"VIEW", "OBSERVE", "TOKEN", "INJECT"}
Roles == {"WRITE", "VIEW"}

tty == <<echo, lastflags, typed>>
process == <<phase, listener, mode>>
vars == <<clients, stack, depth, mread, rows, echo, lastflags, phase,
          listener, mode, typed, peer, upsets>>
-----------------------------------------------------------------------------
(* The client table.                                                        *)

\* mclient_first and mclient_next visit the connected slots in table order.
Live(cl) == {s \in Slots : cl[s].fd}

Writers(cl) == {s \in Live(cl) : cl[s].role = "WRITE"}

\* A client is blocked by its own FLOW_CTRL or by its backlog; reading the
\* PTY stops when all of the connected ones are.
Blocked(c) == c.paused \/ c.hiwater

\* Mutant: FLOW_CTRL does not count.
update_master_interest_backlog(cl) ==
    ~ (Live(cl) # {} /\ \A s \in Live(cl) : cl[s].hiwater)

update_master_interest(cl) ==
    ~ (Live(cl) # {} /\ \A s \in Live(cl) : Blocked(cl[s]))

\* The heights that count for the size of the window.
Votes(cl) ==
    {cl[s].rows : s \in {t \in Live(cl) : /\ "OBSERVE" \notin cl[t].flags
                                          /\ cl[t].rows > 0}}

\* Mutant: clients that opted out of sizing take part.
resize_to_fit_all(cl) ==
    LET votes == {cl[s].rows : s \in {t \in Live(cl) : cl[t].rows > 0}}
    IN  IF votes = {} THEN rows ELSE Min(votes)

resize_to_fit(cl) == IF Votes(cl) = {} THEN rows ELSE Min(Votes(cl))

\* A slot of the zeroed table.
FreeSlot(p) ==
    [fd |-> FALSE, id |-> p, role |-> "WRITE", flags |-> {}, rows |-> 0,
     ready |-> FALSE, paused |-> FALSE, pend |-> 0, hiwater |-> FALSE,
     stalled |-> FALSE, inrun |-> FALSE, inq |-> <<>>]

\* mclient_alloc sets these fields and trusts mclient_disconnect, or the
\* zeroed table, for the others.
mclient_alloc(c, p, f, r) ==
    [c EXCEPT !.fd = TRUE, !.role = "WRITE", !.ready = FALSE, !.id = p,
              !.flags = f, !.rows = r]

\* Mutants: a pause, or an open run, survives the connection.
Cleared_paused(c) ==
    [c EXCEPT !.fd = FALSE, !.pend = 0, !.hiwater = FALSE, !.stalled = FALSE,
              !.inq = <<>>, !.inrun = FALSE, !.rows = 0, !.role = "VIEW"]

Cleared_inrun(c) ==
    [c EXCEPT !.fd = FALSE, !.pend = 0, !.hiwater = FALSE, !.stalled = FALSE,
              !.paused = FALSE, !.rows = 0, !.role = "VIEW"]

\* The part of mclient_disconnect that clears the slot.
Cleared(c) ==
    [c EXCEPT !.fd = FALSE, !.pend = 0, !.hiwater = FALSE, !.stalled = FALSE,
              !.inq = <<>>, !.inrun = FALSE, !.paused = FALSE, !.rows = 0,
              !.role = "VIEW"]

\* Mutant: the message to be queued is not counted.
OverLimit_off(c) == c.pend > Hard

\* A client this far behind is dropped rather than sent more.
OverLimit(c) == c.pend + 1 > Hard

\* A message is appended to the queue ...
Queued(c) ==
    [c EXCEPT !.pend = @ + 1, !.hiwater = @ \/ c.pend + 1 >= High]

\* ... and mclient_flush gets k messages out before the socket is full.
Flushed(c, k) ==
    [c EXCEPT !.pend = @ - k, !.stalled = (k = 0 /\ c.pend > 0),
              !.hiwater = @ /\ c.pend - k > Low]
-----------------------------------------------------------------------------
(* The call stack.  A frame has the function op, the client s it is about, *)
(* a loop cursor i, the set `to' of clients still to be sent a message, its *)
(* kind k and value v, and the flags f of a ROLE_REQUEST.                    *)

Call(op, s, i, to, k, v, f) ==
    [op |-> op, s |-> s, i |-> i, to |-> to, k |-> k, v |-> v, f |-> f]

\* A loop that sends to the clients in `to', in table order.  A client that
\* goes away while it runs is skipped by mclient_enqueue.
send_all(to, k, v, about) == Call("enqueue", about, 0, to, k, v, {})

mclient_enqueue(s, k, v) == send_all({s}, k, v, s)
client_event(s, kind) == Call("event", s, 0, {}, "-", kind, {})
event_end == Call("event_end", 0, 0, {}, "-", "-", {})
close_slot(s) == Call("close", s, 0, {}, "-", "-", {})
resize_call == Call("resize", 0, 0, {}, "-", "-", {})
demote_loop(s, i) == Call("demote", s, i, {}, "-", "-", {})
grant_attach(s, want) == Call("attach_role", s, 0, {}, "-", want, {})
attach_ready(s) == Call("attach_ready", s, 0, {}, "-", "-", {})
attach_flags(s) == Call("attach_flags", s, 0, {}, "-", "-", {})
grant_request(s, want, f) == Call("request_role", s, 0, {}, "-", want, f)
stop_loop == Call("stop", 0, 0, {}, "-", "-", {})
disconnect_all(i) == Call("disconnect_all", 0, i, {}, "-", "-", {})

\* Mutant: the client itself is not told.
role_change_silent(s, role) == <<client_event(s, "ROLE")>>

\* The client is told of its new role, and the others of the client.
role_change(s, role) ==
    <<mclient_enqueue(s, "ROLE_CHANGE", role), client_event(s, "ROLE")>>

Sends(to, k, v, about) ==
    IF to = {} THEN <<>> ELSE <<send_all(to, k, v, about)>>

\* mclient_disconnect announces the departure of a connected client before
\* it clears the slot.
mclient_disconnect(s) ==
    IF clients[s].fd THEN <<client_event(s, "LEAVE"), close_slot(s)>>
                     ELSE <<close_slot(s)>>

Top == Head(stack)

\* The innermost call returns, after making the calls fs.
Return(fs) == stack' = fs \o Tail(stack)

Stranger == [told |-> "-", knows |-> "unset", open |-> FALSE, seen |-> {}]

\* What the client will have been told once this message reaches it.
Told(p, fr) ==
    CASE fr.k \in {"REPLY", "ROLE_CHANGE"} -> [p EXCEPT !.told = fr.v]
      [] fr.k = "PTY_FLAGS" -> [p EXCEPT !.knows = fr.v]
      [] fr.k = "EVENT" /\ fr.v = "JOIN" -> [p EXCEPT !.seen = @ \cup {fr.s}]
      [] OTHER -> p
-----------------------------------------------------------------------------
(* The functions that may be running, each up to its next call.             *)

\* One client was dealt with, after the calls given: on to the next.
Sent(s, calls) ==
    Return(calls \o Sends(Top.to \ {s}, Top.k, Top.v, Top.s))

\* The message is in the queue, and the flush has made c of the client.
\* Crossing a water mark re-evaluates PTY reads.
QueueTo(s, c, calls) ==
    /\ clients' = [clients EXCEPT ![s] = c]
    /\ mread' = IF /\ Queued(clients[s]).hiwater = clients[s].hiwater
                   /\ c.hiwater = Queued(clients[s]).hiwater
                THEN mread ELSE update_master_interest(clients')
    /\ peer' = [peer EXCEPT ![s] = Told(@, Top)]
    /\ Sent(s, calls)

\* mclient_enqueue: a client at the hard limit, or stalled for too long, is
\* dropped with the message unsent; otherwise the message is queued, and the
\* flush sends what the socket takes or finds it broken.  (Running out of
\* memory for the queue drops the client as a broken socket does.)
EnqueueTo(s) ==
    \/ ~ clients[s].fd /\ Sent(s, <<>>) /\ UNCHANGED <<clients, mread, peer>>
    \/ /\ clients[s].fd /\ (OverLimit(clients[s]) \/ clients[s].stalled)
       /\ Sent(s, mclient_disconnect(s))
       /\ UNCHANGED <<clients, mread, peer>>
    \/ /\ clients[s].fd /\ ~ OverLimit(clients[s])
       /\ \/ QueueTo(s, Queued(clients[s]), mclient_disconnect(s))
          \/ \E k \in 0..(clients[s].pend + 1) :
                 QueueTo(s, Flushed(Queued(clients[s]), k), <<>>)

Enqueue ==
    /\ Top.op = "enqueue" /\ EnqueueTo(Min(Top.to))
    /\ UNCHANGED <<depth, rows, tty, process, upsets>>

\* Mutant: only a client that held the session token is considered.
Candidates_token(cl) == {s \in Live(cl) : "TOKEN" \in cl[s].flags}

Candidates(cl) == {s \in Live(cl) : "VIEW" \notin cl[s].flags}

\* role_reassign gives the keyboard, if nobody has it now, to the first client
\* that did not ask to watch.  mclient_disconnect then fits the window.
role_reassign(cl) ==
    \/ /\ Writers(cl) # {} \/ Candidates(cl) = {}
       /\ clients' = cl
       /\ Return(<<resize_call>>)
    \/ /\ Writers(cl) = {} /\ Candidates(cl) # {}
       /\ clients' = [cl EXCEPT ![Min(Candidates(cl))].role = "WRITE"]
       /\ Return(role_change(Min(Candidates(cl)), "WRITE") \o <<resize_call>>)

\* The rest of mclient_disconnect: the slot is freed and its role passed on.
Close ==
    LET left == [clients EXCEPT ![Top.s] = Cleared(@)]
    IN  /\ Top.op = "close"
        /\ role_reassign(left)
        /\ mread' = update_master_interest(left)
        /\ peer' = [peer EXCEPT ![Top.s] = Stranger]
        /\ upsets' = upsets \cup IF \E i \in DOMAIN stack :
                                        stack[i].op = "request_role"
                                 THEN {"torn"} ELSE {}
        /\ UNCHANGED <<depth, rows, tty, process>>

Resize ==
    /\ Top.op = "resize"
    /\ rows' = resize_to_fit(clients)
    /\ Return(<<>>)
    /\ UNCHANGED <<clients, depth, mread, tty, process, peer, upsets>>

\* Mutants: clients still in their handshake are told; only writers are.
Audience_unready(s) == Live(clients) \ {s}

Audience_writers(s) ==
    {t \in Writers(clients) \ {s} : clients[t].ready}

\* client_event sends to every ready client but the one concerned, and does
\* nothing when it is already running.
Audience(s) == {t \in Live(clients) \ {s} : clients[t].ready}

\* Mutant: an early return when there is nobody to tell keeps the count.
Event_leak ==
    /\ Top.op = "event"
    /\ IF depth > 0
       THEN Return(<<>>) /\ UNCHANGED depth
       ELSE /\ depth' = depth + 1
            /\ Return(IF Audience(Top.s) = {} THEN <<>>
                      ELSE Append(Sends(Audience(Top.s), "EVENT", Top.v, Top.s),
                                  event_end))
    /\ UNCHANGED <<clients, mread, rows, tty, process, peer, upsets>>

Event ==
    /\ Top.op = "event"
    /\ IF depth > 0
       THEN Return(<<>>) /\ UNCHANGED depth
       ELSE /\ depth' = depth + 1
            /\ Return(Sends(Audience(Top.s), "EVENT", Top.v, Top.s)
                      \o <<event_end>>)
    /\ UNCHANGED <<clients, mread, rows, tty, process, peer, upsets>>

EventEnd ==
    /\ Top.op = "event_end"
    /\ depth' = depth - 1
    /\ Return(<<>>)
    /\ UNCHANGED <<clients, mread, rows, tty, process, peer, upsets>>

\* Mutant: the loop starts over and tells viewers again.
LaterWriters_restart(s, i) == Live(clients) \ {s}

\* The loop of role_for that takes the keyboard from every other client when
\* the asker holds the session token.  Who has it is looked up each time.
LaterWriters(s, i) == {t \in Writers(clients) \ {s} : t > i}

Demote ==
    LET later == LaterWriters(Top.s, Top.i)
        o == Min(later)
    IN  /\ Top.op = "demote"
        /\ IF later = {}
           THEN UNCHANGED clients /\ Return(<<>>)
           ELSE /\ clients' = [clients EXCEPT ![o].role = "VIEW"]
                /\ Return(role_change(o, "VIEW") \o <<demote_loop(Top.s, o)>>)
        /\ UNCHANGED <<depth, mread, rows, tty, process, peer, upsets>>
-----------------------------------------------------------------------------
(* The events of the loop.  The loop goes on dispatching what poll returned  *)
(* after iox_loop_stop, so handlers still run while "stopping".             *)

Idle == stack = <<>> /\ phase \in {"run", "stopping"}

\* role_for decides what s gets for the flags f; the holder of the session
\* token first takes the keyboard from the others (demote_loop).
role_for(s, f) ==
    CASE "VIEW" \in f \/ "INJECT" \in f -> "VIEW"
      [] "TOKEN" \in f \/ mode = "multi" -> "WRITE"
      [] OTHER -> IF Writers(clients) \ {s} = {} THEN "WRITE" ELSE "VIEW"

\* Mutant: the keyboard is granted but not taken from its holder.
TokenClaim_none(s, f) == <<>>

TokenClaim(s, f) ==
    IF "TOKEN" \in f /\ f \cap {"VIEW", "INJECT"} = {}
    THEN <<demote_loop(s, 0)>> ELSE <<>>

Shared(f) ==
    IF mode = "multi" /\ f \cap {"VIEW", "INJECT", "TOKEN"} = {}
    THEN {"multi"} ELSE {}

\* on_new_client: a program connects and attaches.  With a full table it is
\* refused and nothing changes.
Attach(p, f, r) ==
    LET s == Min(Slots \ Live(clients))
    IN  /\ Idle /\ listener = "reachable"
        /\ Live(clients) # Slots
        /\ clients' = [clients EXCEPT ![s] = mclient_alloc(@, p, f, r)]
        /\ stack' = TokenClaim(s, f) \o <<grant_attach(s, role_for(s, f))>>
        /\ upsets' = upsets \cup Shared(f)
        /\ peer' = [t \in Slots |->
                       IF t = s
                       THEN [Stranger EXCEPT !.seen = Live(clients)]
                       ELSE [peer[t] EXCEPT !.seen = @ \ {s}]]
        /\ UNCHANGED <<depth, mread, rows, tty, process>>

AttachRole ==
    /\ Top.op = "attach_role"
    /\ clients' = [clients EXCEPT ![Top.s].role = Top.v]
    /\ rows' = resize_to_fit(clients)
    /\ Return(<<mclient_enqueue(Top.s, "REPLY", Top.v),
                attach_ready(Top.s)>>)
    /\ UNCHANGED <<depth, mread, tty, process, peer, upsets>>

AttachReady ==
    /\ Top.op = "attach_ready"
    /\ clients' = [clients EXCEPT ![Top.s].ready = TRUE]
    /\ Return(<<mclient_enqueue(Top.s, "OUTPUT", "-"),
                client_event(Top.s, "JOIN"), attach_flags(Top.s)>>)
    /\ UNCHANGED <<depth, mread, rows, tty, process, peer, upsets>>

AttachEcho ==
    /\ Top.op = "attach_flags"
    /\ lastflags' = echo
    /\ Return(<<mclient_enqueue(Top.s, "PTY_FLAGS", echo)>>)
    /\ UNCHANGED <<clients, depth, mread, rows, echo, process, typed, peer, upsets>>

\* IPC_MSG_ROLE_REQUEST.  The one-shot lumi send-input never sends it, and
\* those that do (lumi-attach and the proxies) never inject.
RoleRequest(s, f) ==
    /\ Idle /\ clients[s].fd /\ "ROLE_REQUEST" \in Events
    /\ "INJECT" \notin f \cup clients[s].flags
    /\ stack' = TokenClaim(s, f) \o <<grant_request(s, role_for(s, f), f)>>
    /\ upsets' = upsets \cup Shared(f)
    /\ UNCHANGED <<clients, depth, mread, rows, tty, process, peer>>

RequestRole ==
    LET s == Top.s
    IN  /\ Top.op = "request_role"
        /\ clients' = [clients EXCEPT ![s].flags = Top.f, ![s].role = Top.v]
        /\ rows' = resize_to_fit(clients')
        /\ Return(IF Top.v = clients[s].role THEN <<>>
                  ELSE role_change(s, Top.v))
        /\ upsets' = upsets \cup IF Top.v = "VIEW" /\ clients[s].role = "WRITE"
                                 THEN {"yielded"} ELSE {}
        /\ UNCHANGED <<depth, mread, tty, process, peer>>

\* One check refuses what only the keyboard holder may send.  An inject-only
\* client may deliver an input run all the same.
msg_is_input == {"INPUT", "INPUT_BEGIN", "INPUT_END"}
msg_mutates == msg_is_input \cup {"KILL", "FLOW_CTRL", "ATTR_SET"}

Allowed(c, type) ==
    \/ c.role = "WRITE" \/ type \notin msg_mutates
    \/ "INJECT" \in c.flags /\ type \in msg_is_input

Receive(s, type) == Idle /\ clients[s].fd /\ type \in Events

\* The client programs bracket their runs properly.
Bracket(p, type) ==
    CASE type = "INPUT_BEGIN" -> [p EXCEPT !.open = TRUE]
      [] type = "INPUT_END" -> [p EXCEPT !.open = FALSE]
      [] OTHER -> p

Bracketed(p, type) ==
    /\ type = "INPUT_BEGIN" => ~ p.open
    /\ type = "INPUT_END" => p.open

\* mclient_deny tells the client at most once a second.
Deny(s, type) ==
    /\ Receive(s, type) /\ ~ Allowed(clients[s], type)
    /\ Bracketed(peer[s], type)
    /\ peer' = [peer EXCEPT ![s] = Bracket(@, type)]
    /\ stack' \in {<<>>, <<mclient_enqueue(s, "ERROR", "-")>>}
    /\ UNCHANGED <<clients, depth, mread, rows, tty, process, upsets>>

\* IPC_MSG_INPUT: held back inside a run, and the connection dropped if the
\* run grows too long; written to the PTY at once outside one.
Input(s) ==
    LET c == clients[s]
    IN  /\ Receive(s, "INPUT") /\ Allowed(c, "INPUT")
        /\ \/ /\ c.inrun /\ Len(c.inq) < InrunLimit
              /\ clients' = [clients EXCEPT ![s].inq = Append(@, c.id)]
              /\ UNCHANGED <<typed, stack>>
           \/ /\ c.inrun /\ Len(c.inq) >= InrunLimit
              /\ stack' = mclient_disconnect(s)
              /\ UNCHANGED <<typed, clients>>
           \/ /\ ~ c.inrun
              /\ typed' = <<c.id>>
              /\ UNCHANGED <<stack, clients>>
        /\ UNCHANGED <<depth, mread, rows, echo, lastflags, process, peer,
                       upsets>>

InputBegin(s) ==
    /\ Receive(s, "INPUT_BEGIN") /\ Allowed(clients[s], "INPUT_BEGIN")
    /\ Bracketed(peer[s], "INPUT_BEGIN")
    /\ clients' = [clients EXCEPT ![s].inq = <<>>, ![s].inrun = TRUE]
    /\ peer' = [peer EXCEPT ![s] = Bracket(@, "INPUT_BEGIN")]
    /\ UNCHANGED <<stack, depth, mread, rows, tty, process, upsets>>

InputEnd(s) ==
    /\ Receive(s, "INPUT_END") /\ Allowed(clients[s], "INPUT_END")
    /\ Bracketed(peer[s], "INPUT_END")
    /\ clients' = [clients EXCEPT ![s].inq = <<>>, ![s].inrun = FALSE]
    /\ typed' = IF clients[s].inrun THEN clients[s].inq ELSE typed
    /\ peer' = [peer EXCEPT ![s] = Bracket(@, "INPUT_END")]
    /\ UNCHANGED <<stack, depth, mread, rows, echo, lastflags, process,
                   upsets>>

FlowCtrl(s, pause) ==
    /\ Receive(s, "FLOW_CTRL") /\ Allowed(clients[s], "FLOW_CTRL")
    /\ pause # clients[s].paused
    /\ clients' = [clients EXCEPT ![s].paused = pause]
    /\ mread' = update_master_interest(clients')
    /\ UNCHANGED <<stack, depth, rows, tty, process, peer, upsets>>

WinResize(s, r) ==
    /\ Receive(s, "WIN_RESIZE") /\ r > 0
    /\ clients' = [clients EXCEPT ![s].rows = r]
    /\ rows' = resize_to_fit(clients')
    /\ UNCHANGED <<stack, depth, mread, tty, process, peer, upsets>>

\* REFRESH sends the screen again, and each attribute request has a reply
\* (the store itself is AttrStore).
Refresh(s) ==
    /\ Receive(s, "REFRESH")
    /\ stack' = <<mclient_enqueue(s, "OUTPUT", "-")>>
    /\ UNCHANGED <<clients, depth, mread, rows, tty, process, peer, upsets>>

Attr(s) ==
    /\ \E type \in {"ATTR_GET", "ATTR_SET"} :
           Receive(s, type) /\ Allowed(clients[s], type)
    /\ stack' = <<mclient_enqueue(s, "ATTR", "-")>>
    /\ UNCHANGED <<clients, depth, mread, rows, tty, process, peer, upsets>>

\* DETACH, or the connection is found closed.
Leave(s) ==
    /\ Idle /\ clients[s].fd
    /\ stack' = mclient_disconnect(s)
    /\ UNCHANGED <<clients, depth, mread, rows, tty, process, peer, upsets>>

Kill(s) ==
    /\ Receive(s, "KILL") /\ Allowed(clients[s], "KILL")
    /\ stack' = Append(mclient_disconnect(s), stop_loop)
    /\ UNCHANGED <<clients, depth, mread, rows, tty, process, peer, upsets>>

\* The socket of a client with a backlog became writable.
Writable(s) ==
    LET c == clients[s]
    IN  /\ Idle /\ c.fd /\ c.pend > 0
        /\ \/ /\ stack' = mclient_disconnect(s)
              /\ UNCHANGED <<clients, mread>>
           \/ /\ \E k \in 1..c.pend :
                     clients' = [clients EXCEPT ![s] = Flushed(c, k)]
              /\ mread' = IF clients'[s].hiwater = c.hiwater THEN mread
                          ELSE update_master_interest(clients')
              /\ UNCHANGED stack
        /\ UNCHANGED <<depth, rows, tty, process, peer, upsets>>
-----------------------------------------------------------------------------
(* The PTY, the outside world and the end of the process.  A handler reads   *)
(* the echo flag, MODE and the socket's path at most once, so a change that  *)
(* comes while it runs is one that comes before it or after it.             *)

\* on_master_read: end of file stops the loop.  Output goes to every client,
\* after the echo flag if that changed since it was last looked at.
MasterRead ==
    LET Send(k, v) == Sends(Live(clients), k, v, 0)
        changed == Live(clients) # {} /\ echo # lastflags
    IN  /\ Idle /\ mread /\ "OUTPUT" \in Events
        /\ \/ /\ phase' = "stopping" /\ "STOP" \in Events
              /\ UNCHANGED <<stack, lastflags>>
           \/ /\ lastflags' = IF changed THEN echo ELSE lastflags
              /\ stack' = (IF changed THEN Send("PTY_FLAGS", echo) ELSE <<>>)
                          \o Send("OUTPUT", "-")
              /\ UNCHANGED phase
        /\ UNCHANGED <<clients, depth, mread, rows, echo, listener, mode,
                       typed, peer, upsets>>

\* The application turns ECHO on or off.
EchoChange ==
    /\ stack = <<>> /\ echo' \in Echoes \ {echo}
    /\ UNCHANGED <<clients, stack, depth, mread, rows, lastflags, typed,
                   process, peer, upsets>>

\* `lumi share -M' rewrites MODE, which role_for reads on every call.
ModeChange ==
    /\ stack = <<>> /\ mode' \in Modes \ {mode}
    /\ UNCHANGED <<clients, stack, depth, mread, rows, tty, phase, listener,
                   peer, upsets>>

\* SIGTERM, SIGCHLD of the shell, or KILL on a connection of its own.
StopRequest ==
    /\ Idle /\ phase = "run" /\ "STOP" \in Events
    /\ phase' = "stopping"
    /\ UNCHANGED <<clients, stack, depth, mread, rows, tty, listener, mode,
                   peer, upsets>>

StopLoop ==
    /\ Top.op = "stop"
    /\ phase' = "stopping"
    /\ Return(<<>>)
    /\ UNCHANGED <<clients, depth, mread, rows, tty, listener, mode, peer,
                   upsets>>

\* Somebody removes the session directory: the socket loses its name.
DirRemoved ==
    /\ Idle /\ listener = "reachable" /\ "DIR_REMOVED" \in Events
    /\ listener' = "nameless"
    /\ UNCHANGED <<clients, stack, depth, mread, rows, tty, phase, mode,
                   peer, upsets>>

\* on_sighup: an unreachable listener is replaced, or lost if
\* register_server fails, in which case a later SIGHUP tries again.
Sighup ==
    /\ Idle /\ listener # "reachable"
    /\ listener' \in {"reachable", "closed"}
    /\ UNCHANGED <<clients, stack, depth, mread, rows, tty, phase, mode,
                   peer, upsets>>

\* do_cleanup: every slot is disconnected in turn, then the listener closed.
Cleanup ==
    /\ stack = <<>> /\ phase = "stopping"
    /\ phase' = "cleanup"
    /\ stack' = <<disconnect_all(1)>>
    /\ UNCHANGED <<clients, depth, mread, rows, tty, listener, mode, peer,
                   upsets>>

\* Mutant: the last slot is left out.
DisconnectAll_off ==
    LET i == Top.i
    IN  /\ Top.op = "disconnect_all"
        /\ IF i < NSlots
           THEN /\ Return(Append(mclient_disconnect(i), disconnect_all(i + 1)))
                /\ UNCHANGED <<phase, listener>>
           ELSE Return(<<>>) /\ phase' = "down" /\ listener' = "closed"
        /\ UNCHANGED <<clients, depth, mread, rows, tty, mode, peer, upsets>>

DisconnectAll ==
    LET i == Top.i
    IN  /\ Top.op = "disconnect_all"
        /\ IF i <= NSlots
           THEN /\ Return(Append(mclient_disconnect(i), disconnect_all(i + 1)))
                /\ UNCHANGED <<phase, listener>>
           ELSE Return(<<>>) /\ phase' = "down" /\ listener' = "closed"
        /\ UNCHANGED <<clients, depth, mread, rows, tty, mode, peer, upsets>>

\* The process is gone.
Down == phase = "down" /\ UNCHANGED vars
-----------------------------------------------------------------------------
Init ==
    /\ clients \in [Slots -> {FreeSlot(CHOOSE p \in Procs : TRUE)}]
    /\ stack = <<>> /\ depth = 0 /\ mread = TRUE /\ rows = 24
    /\ echo \in Echoes /\ lastflags = "unset" /\ typed = <<>>
    /\ phase = "run" /\ listener = "reachable" /\ mode \in Modes
    /\ peer = [s \in Slots |-> Stranger]
    /\ upsets = {}

Step ==
    /\ stack # <<>>
    /\ \/ Enqueue \/ Close \/ Resize \/ Event \/ EventEnd \/ Demote
       \/ AttachRole \/ AttachReady \/ AttachEcho \/ RequestRole
       \/ StopLoop \/ DisconnectAll

Message(s) ==
    \/ \E f \in AttachFlags : RoleRequest(s, f)
    \/ \E type \in Events \cap msg_mutates : Deny(s, type)
    \/ Input(s) \/ InputBegin(s) \/ InputEnd(s)
    \/ \E pause \in BOOLEAN : FlowCtrl(s, pause)
    \/ \E r \in Sizes : WinResize(s, r)
    \/ Refresh(s) \/ Attr(s) \/ Leave(s) \/ Kill(s)

Next ==
    \/ Step
    \/ \E p \in Procs, f \in AttachFlags, r \in Sizes : Attach(p, f, r)
    \/ \E s \in Slots : Message(s) \/ Writable(s)
    \/ MasterRead \/ EchoChange \/ ModeChange
    \/ StopRequest \/ DirRemoved \/ Sighup \/ Cleanup \/ Down

\* A handler that has started runs on.  A loop that was stopped is left once
\* it has called the handlers of this pass: between two of them Cleanup is
\* possible, and there are only so many, hence strong fairness.
Spec == Init /\ [][Next]_vars /\ WF_vars(Step) /\ SF_vars(Cleanup)
-----------------------------------------------------------------------------
(* Properties.                                                              *)

Quiet == stack = <<>>

ClientCalls ==
    {"close", "event", "demote", "attach_role", "attach_ready", "attach_flags",
     "request_role"}

\* The values a message of each kind carries.
Payload(k) ==
    CASE k \in {"REPLY", "ROLE_CHANGE"} -> Roles
      [] k = "EVENT" -> {"JOIN", "LEAVE", "ROLE"}
      [] k = "PTY_FLAGS" -> Echoes
      [] OTHER -> {"-"}

Frames ==
    {fr \in [op : ClientCalls \cup {"enqueue", "resize", "event_end", "stop",
                                    "disconnect_all"},
             s : 0..NSlots, i : 0..(NSlots + 1), to : SUBSET Slots,
             k : {"-", "REPLY", "ROLE_CHANGE", "OUTPUT", "EVENT", "PTY_FLAGS",
                  "ERROR", "ATTR"},
             v : {"-", "JOIN", "LEAVE", "ROLE"} \cup Roles \cup Echoes,
             f : SUBSET Flags] :
        /\ fr.op \in ClientCalls \/ fr.k = "EVENT" => fr.s \in Slots
        /\ fr.op = "enqueue" => fr.to # {} /\ fr.v \in Payload(fr.k)
        /\ fr.op = "event" => fr.v \in Payload("EVENT")
        /\ fr.op \in {"attach_role", "request_role"} => fr.v \in Roles
        /\ fr.op = "disconnect_all" => fr.i # 0}

ClientRecords ==
    [fd : BOOLEAN, id : Procs, role : Roles, flags : SUBSET Flags, rows : Nat,
     ready : BOOLEAN, paused : BOOLEAN, pend : 0..Hard, hiwater : BOOLEAN,
     stalled : BOOLEAN, inrun : BOOLEAN, inq : Seq(Procs)]

PeerRecords ==
    [told : Roles \cup {"-"}, knows : Echoes \cup {"unset"}, open : BOOLEAN,
     seen : SUBSET Slots]

\* Every variable keeps its type; in particular no output queue exceeds the
\* hard limit.
TypeOK ==
    /\ clients \in [Slots -> ClientRecords]
    /\ stack \in Seq(Frames)
    /\ depth \in Nat /\ mread \in BOOLEAN /\ rows \in Nat
    /\ echo \in Echoes /\ lastflags \in Echoes \cup {"unset"}
    /\ phase \in {"run", "stopping", "cleanup", "down"}
    /\ listener \in {"reachable", "nameless", "closed"}
    /\ mode \in Modes /\ typed \in Seq(Procs)
    /\ peer \in [Slots -> PeerRecords]
    /\ upsets \subseteq {"torn", "multi", "yielded"}

\* mclient_alloc resets only part of a slot, so a free slot must hold no
\* backlog, pause or open input run that the next client would inherit.
FreeSlotsClean ==
    \A s \in Slots : ~ clients[s].fd =>
        /\ clients[s].pend = 0 /\ ~ Blocked(clients[s])
        /\ ~ clients[s].inrun /\ clients[s].inq = <<>>

\* Whatever order clients pause, fall behind, catch up and leave in: when all
\* those attached are blocked, the PTY is not read (update_master_interest).
BackpressureEngages ==
    Live(clients) # {} /\ (\A s \in Live(clients) : Blocked(clients[s]))
        => ~ mread

\* When no handler runs the window has the smallest height asked for by a
\* client that takes part in the vote, whoever joined, left, was dropped or
\* changed its flags, and however handlers nested (resize_to_fit).
SizeFits == Quiet /\ Votes(clients) # {} => rows = Min(Votes(clients))

\* "One client holds the keyboard at a time in single-writer mode": true as
\* long as nobody was granted it under multi-writer mode, and no client was
\* dropped while a ROLE_REQUEST with the token was taking it from the others.
OneWriter ==
    Quiet /\ upsets = {} =>
        \A s, t \in Writers(clients) : s = t

\* role_reassign: a window with a client that attached to type is never left
\* with nobody able to.  Out are a writer that asks to become a viewer, which
\* passes the keyboard to nobody, and a drop in the middle of a token claim.
KeyboardHeld ==
    /\ Quiet /\ upsets \cap {"torn", "yielded"} = {}
    /\ \E s \in Live(clients) : clients[s].flags \cap {"VIEW", "INJECT"} = {}
    => Writers(clients) # {}

\* The last role a client was told, in its ATTACH_REPLY or a ROLE_CHANGE, is
\* the role the server goes by, even after nested reassignments.
RoleTold ==
    Quiet => \A s \in Live(clients) : peer[s].told = clients[s].role

\* "A session must not be watchable without the people in it knowing": every
\* attached client was told of every other, in spite of client_event not
\* nesting and of sends that fail half way through the announcement.
PresenceKnown ==
    Quiet => \A s \in Live(clients) : Live(clients) \ {s} \subseteq peer[s].seen

\* A client still waiting for its ATTACH_REPLY gets nothing before it, unless
\* the server is already closing that connection (the `ready' field).
ReplyFirst ==
    ~ Quiet /\ Top.op = "enqueue" =>
        \A s \in Top.to :
            clients[s].fd /\ peer[s].told = "-" /\ Top.k # "REPLY"
                => \E j \in DOMAIN stack : /\ stack[j].op = "close"
                                           /\ stack[j].s = s

\* Input that a client left in an unfinished run is never typed by the next
\* client of its slot, nor mixed with another's (mclient_reset_inq).
InputOwned ==
    /\ \A s \in Slots : \A n \in DOMAIN clients[s].inq :
           clients[s].fd /\ clients[s].inq[n] = clients[s].id
    /\ \A m, n \in DOMAIN typed : typed[m] = typed[n]

\* client_event_depth is right after every early return, so announcements
\* neither nest nor stay switched off.
EventDepth ==
    LET Ends == {i \in DOMAIN stack : stack[i].op = "event_end"}
    IN  \/ depth = 0 /\ Ends = {}
        \/ depth = 1 /\ \E i \in Ends : Ends = {i}

\* The chain enqueue, disconnect, client_event, role_reassign, enqueue always
\* ends: every handler returns to the event loop.
HandlersReturn == ~ Quiet ~> Quiet

\* A loop that is told to stop ends with all clients disconnected.
StopsClean == phase = "stopping" ~> phase = "down" /\ Live(clients) = {}
-----------------------------------------------------------------------------
(* What the comments say and the code does not do.                          *)

\* mserver.c:288 "a client that is keeping up keeps the session moving".
KeepingUpKeepsMoving ==
    Quiet /\ (\E s \in Live(clients) : ~ Blocked(clients[s])) => mread

\* mserver.c:1228 the others "already know" the echo flag when one attaches.
EchoKnown ==
    Quiet => \A s \in Live(clients) : peer[s].knows = lastflags

\* ipc_msg.h:80 an inject-only client "keeps a view role".
InjectKeepsView ==
    \A s \in Live(clients) :
        "INJECT" \in clients[s].flags => clients[s].role = "VIEW" \/ ~ Quiet

\* mserver.c:146 "A bare INPUT with no open run bypasses this entirely".
RunsEndWithTheClient ==
    \A s \in Live(clients) : clients[s].inrun => peer[s].open

\* doc/DEV.md:67 "One client holds the keyboard at a time in single-writer mode".
SingleWriter ==
    Quiet /\ "multi" \notin upsets =>
        \A s, t \in Writers(clients) : s = t

\* mserver.c:724 role_reassign is there so that no session is "left with
\* viewers who cannot type".
SomebodyTypes ==
    /\ Quiet /\ "yielded" \notin upsets
    /\ \E s \in Live(clients) : clients[s].flags \cap {"VIEW", "INJECT"} = {}
    => Writers(clients) # {}
=============================================================================
