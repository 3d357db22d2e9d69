-------------------------------- MODULE Share -------------------------------
(***************************************************************************)
(* The keyboard of a session, shared by several lumi-attach clients that    *)
(* are connected to every window (src/cmd/attach/attach.c, the functions    *)
(* client_claim_role to share_ctl_poll, and                                 *)
(* src/libsessdir/sessdir_control.c).                                       *)
(*                                                                          *)
(* Three things say who types: the write token (an flock, `lock'), the      *)
(* role each server gave each of its clients (`srv'), and the role each     *)
(* client believes it has (`cl[c].role'), which is what it refuses its own  *)
(* user by.  They are brought into line by messages: one mailbox for the    *)
(* session (`msg'), which holds the last message only, and a stream each    *)
(* way between a client and a server (`toS', `toC').                        *)
(*                                                                          *)
(* A server is the role table of the module MServer, its handlers in one    *)
(* step each: what a failing send does inside them is examined there.       *)
(***************************************************************************)
EXTENDS Naturals, Sequences, FiniteSetsExt

CONSTANTS
    Clients,    \* the attach processes, by client_id
    Windows,    \* the windows (one server each), numbered
    InOrder,    \* every client lists the windows in the same order
    Late,       \* the windows that are created while clients are attached
    Kinds,      \* how clients are started: "plain", "join" -x, "view" -v
    Mode,       \* MODE in the control file: "single" or "multi"
    Acts,       \* what users do and what goes wrong: see Next
    Tries,      \* CTL_CLAIM_TRIES
    MaxSeq,     \* bound: messages posted
    MaxUser,    \* bound: the last of them that a user starts with
    None        \* no client

ASSUME ShareAssumption ==
    /\ None \notin Clients /\ Windows \subseteq Nat /\ Windows # {}
    /\ Late \subseteq Windows /\ InOrder \in BOOLEAN
    /\ Kinds \subseteq {"plain", "join", "view"}
    /\ Mode \in {"single", "multi"}
    /\ Tries \in Nat \ {0} /\ {MaxSeq, MaxUser} \subseteq Nat

VARIABLES
    up,         \* the windows that exist
    lock,       \* who holds the flock on control.lock
    msg,        \* control.msg
    cl,         \* the state of each client process
    wake,       \* the clients whose watch on the session directory fired
    srv,        \* the client table of each server
    toS,        \* from client to server: flags of a ROLE_REQUEST, or "eof"
    toC         \* from server to client: the role of a ROLE_CHANGE

vars == <<up, lock, msg, cl, wake, srv, toS, toC>>

Slots == 1..Cardinality(Clients)
Flags(c) == [what |-> "request", view |-> cl[c].kind = "view", token |-> cl[c].tok]

Init ==
    /\ up = Windows \ Late
    /\ lock = None
    /\ msg = [seq |-> 0, verb |-> "none", target |-> None, actor |-> None]
    /\ \E kind \in [Clients -> Kinds] :
          cl = [c \in Clients |->
                 [st |-> "out", kind |-> kind[c],
                  role |-> IF kind[c] = "view" THEN "VIEW" ELSE "WRITE",
                  tok |-> FALSE, obs |-> FALSE, seen |-> 0, tries |-> 0,
                  conn |-> {}, skip |-> {}, inotify |-> FALSE,
                  kicks |-> {}, req |-> None]]
    /\ wake = {}
    /\ srv = [w \in Windows |->
               [slot |-> [i \in Slots |-> None],
                role |-> [c \in Clients |-> "none"],
                view |-> [c \in Clients |-> FALSE]]]
    /\ toS = [c \in Clients |-> [w \in Windows |-> <<>>]]
    /\ toC = [c \in Clients |-> [w \in Windows |-> <<>>]]
-----------------------------------------------------------------------------
(* The servers (mserver.c).                                                 *)

Attached(w) == {c \in Clients : srv[w].role[c] # "none"}
Writers(w) == {c \in Clients : srv[w].role[c] = "WRITE"}

(* role_for, and the demotions it makes on the way.                         *)
role_for_first(w, c, f) ==
    IF f.view THEN "VIEW"
    ELSE IF Mode = "multi" \/ Writers(w) \subseteq {c} THEN "WRITE" ELSE "VIEW"
role_for(w, c, f) ==
    IF f.view THEN "VIEW"
    ELSE IF f.token \/ Mode = "multi" \/ Writers(w) \subseteq {c}
    THEN "WRITE" ELSE "VIEW"

Demotes(f) == f.token /\ ~f.view

Granted(w, c, f) ==
    [o \in Clients |->
        IF o = c THEN role_for(w, c, f)
        ELSE IF Demotes(f) /\ o \in Writers(w) THEN "VIEW" ELSE srv[w].role[o]]

(* A client whose role changed is told, unless it is gone.                  *)
Told_gain(w, roles, except) ==
    [c \in Clients |->
        IF c # except /\ roles[c] # srv[w].role[c] /\ roles[c] = "WRITE"
           /\ cl[c].st # "gone"
        THEN [toC[c] EXCEPT ![w] = Append(@, roles[c])] ELSE toC[c]]
Told(w, roles, except) ==
    [c \in Clients |->
        IF /\ c # except /\ roles[c] # srv[w].role[c] /\ roles[c] # "none"
           /\ cl[c].st # "gone"
        THEN [toC[c] EXCEPT ![w] = Append(@, roles[c])] ELSE toC[c]]

(* on_new_client: the attach of a client, up to its reply.                  *)
FreeSlot(w) == Min({i \in Slots : srv[w].slot[i] = None})

Admit(w, c) ==
    /\ srv' = [srv EXCEPT ![w] =
                [slot |-> [@.slot EXCEPT ![FreeSlot(w)] = c],
                 role |-> Granted(w, c, Flags(c)),
                 view |-> [@.view EXCEPT ![c] = Flags(c).view]]]
    /\ toC' = Told(w, Granted(w, c, Flags(c)), c)

(* ROLE_REQUEST.                                                            *)
OnRequest(w, c, f) ==
    /\ srv' = [srv EXCEPT ![w].role = Granted(w, c, f), ![w].view[c] = f.view]
    /\ toC' = Told(w, Granted(w, c, f), None)

(* The end of a connection: mclient_disconnect and role_reassign.           *)
role_reassign_any(w, roles, slots) ==
    LET here == {i \in Slots : slots[i] # None}
    IN  IF here = {} \/ \E c \in Clients : roles[c] = "WRITE" THEN roles
        ELSE [roles EXCEPT ![slots[Min(here)]] = "WRITE"]
role_reassign_none(w, roles, slots) == roles
role_reassign(w, roles, slots) ==
    LET wanting == {i \in Slots : slots[i] # None /\ ~srv[w].view[slots[i]]}
    IN  IF wanting = {} \/ \E c \in Clients : roles[c] = "WRITE" THEN roles
        ELSE [roles EXCEPT ![slots[Min(wanting)]] = "WRITE"]

OnEof_kept(w, c) ==
    LET roles == role_reassign(w, [srv[w].role EXCEPT ![c] = "none"], srv[w].slot)
    IN  /\ srv' = [srv EXCEPT ![w].role = roles]
        /\ toC' = Told(w, roles, c)
OnEof(w, c) ==
    LET slots == [i \in Slots |-> IF srv[w].slot[i] = c THEN None ELSE srv[w].slot[i]]
        roles == role_reassign(w, [srv[w].role EXCEPT ![c] = "none"], slots)
    IN  /\ srv' = [srv EXCEPT ![w] = [@ EXCEPT !.slot = slots, !.role = roles]]
        /\ toC' = Told(w, roles, c)

(* A server reads one message of a client.                                  *)
ServerRead(w, c) ==
    /\ toS[c][w] # <<>>
    /\ toS' = [toS EXCEPT ![c][w] = Tail(@)]
    /\ LET m == Head(toS[c][w]) IN
       IF m.what = "eof" THEN OnEof(w, c) ELSE OnRequest(w, c, m)
    /\ UNCHANGED <<up, lock, msg, cl, wake>>
-----------------------------------------------------------------------------
(* The session directory.  A client in its loop that could start a watch is *)
(* woken by every file that is renamed, created or closed after writing     *)
(* there.                                                                   *)

InLoop == {c \in Clients : cl[c].st \in {"in", "watch"}}
Roster == {c \in Clients : cl[c].st \in {"listed", "in", "watch", "stop", "closed"}}
Watchers == {c \in InLoop : cl[c].inotify}
Changed == wake' = wake \union Watchers

CanPost == msg.seq < MaxSeq
UserPosts == msg.seq < MaxUser
sessdir_ctl_post(verb, target, actor) ==
    msg' = [seq |-> msg.seq + 1, verb |-> verb, target |-> target, actor |-> actor]

(* The token.  An attempt that fails has opened and closed control.lock for *)
(* writing, and so has a release.                                           *)
acquired(c) == lock \in {None, c}
sessdir_token_acquire(c) ==
    /\ lock' = IF acquired(c) THEN c ELSE lock
    /\ IF acquired(c) THEN UNCHANGED wake ELSE Changed
sessdir_token_release(c) ==
    /\ lock' = IF lock = c THEN None ELSE lock
    /\ IF lock = c THEN Changed ELSE UNCHANGED wake

(* role_announce: the flags f to every server the client is connected to.   *)
role_announce_one(c, f) ==
    toS' = [toS EXCEPT ![c] = [w \in Windows |->
              IF cl[c].conn # {} /\ w = Min(cl[c].conn) THEN Append(@[w], f) ELSE @[w]]]
role_announce(c, f) ==
    toS' = [toS EXCEPT ![c] =
              [w \in Windows |-> IF w \in cl[c].conn THEN Append(@[w], f) ELSE @[w]]]
-----------------------------------------------------------------------------
(* A client starts: ctl_seq_sync, then client_claim_role.                   *)

ctl_seq_sync(c) ==
    /\ cl[c].st = "out"
    /\ cl' = [cl EXCEPT ![c].st = "claim", ![c].seen = msg.seq]
    /\ UNCHANGED <<up, lock, msg, wake, srv, toS, toC>>

(* The client goes on to attach as a viewer who does not vote on the size.  *)
Watching(c) ==
    cl' = [cl EXCEPT ![c].st = "attach", ![c].role = "VIEW", ![c].obs = TRUE]

client_claim_role(c) ==
    /\ cl[c].st = "claim"
    /\ \/ /\ cl[c].kind = "view"
          /\ Watching(c)
          /\ UNCHANGED <<lock, msg, wake>>
       \/ /\ cl[c].kind # "view" /\ acquired(c)
          /\ sessdir_token_acquire(c)
          /\ cl' = [cl EXCEPT ![c].st = "attach", ![c].tok = TRUE]
          /\ UNCHANGED msg
       \/ /\ cl[c].kind = "plain" /\ Mode = "single" /\ ~acquired(c)
          /\ CanPost /\ sessdir_ctl_post("kick", None, c) /\ Changed
          /\ cl' = [cl EXCEPT ![c].st = "takeover", ![c].kicks = Roster]
          /\ UNCHANGED lock
       \/ /\ ~acquired(c) /\ (cl[c].kind = "join" \/ (cl[c].kind = "plain" /\ Mode = "multi"))
          /\ Watching(c) /\ Changed
          /\ UNCHANGED <<lock, msg>>
    /\ UNCHANGED <<up, srv, toS, toC>>

(* sessdir_kick_others: a kick to each client of the roster in turn.  How   *)
(* long it waits after each is left open.                                   *)
sessdir_kick_others(c) ==
    /\ cl[c].st = "takeover"
    /\ \E k \in cl[c].kicks :
          /\ cl' = [cl EXCEPT ![c].kicks = @ \ {k}]
          /\ IF cl[k].st = "gone" THEN UNCHANGED <<msg, wake>>
             ELSE CanPost /\ sessdir_ctl_post("kick", k, c) /\ Changed
    /\ UNCHANGED <<up, lock, srv, toS, toC>>

(* client_takeover: the token, or after some time without it.               *)
client_takeover(c) ==
    /\ cl[c].st = "takeover" /\ cl[c].kicks = {}
    /\ sessdir_token_acquire(c)
    /\ IF acquired(c) THEN cl' = [cl EXCEPT ![c].st = "attach", ![c].tok = TRUE]
       ELSE Watching(c)
    /\ UNCHANGED <<up, msg, srv, toS, toC>>

(* mconn_discover: the windows one after the other, but those the client is *)
(* connected to.                                                            *)
Todo(c) == up \ (cl[c].conn \union cl[c].skip)
Turn(c, w) ==
    /\ cl[c].st \in {"attach", "watch"} /\ w \in Todo(c)
    /\ InOrder => w = Min(Todo(c))

(* Attach to one window.  The reply sets the role.                          *)
AttachWindow(c, w) ==
    /\ Turn(c, w)
    /\ Admit(w, c)
    /\ cl' = [cl EXCEPT ![c].conn = @ \union {w},
                        ![c].role = role_for(w, c, Flags(c))]
    /\ UNCHANGED <<up, lock, msg, wake, toS>>

(* A window that cannot be reached, or that hangs up instead of replying,   *)
(* is left out until the windows are listed again.                          *)
SkipWindow(c, w) ==
    /\ Turn(c, w)
    /\ cl' = [cl EXCEPT ![c].skip = @ \union {w}]
    /\ UNCHANGED <<up, lock, msg, wake, srv, toS, toC>>

(* The client has been to every window and puts itself in the roster; some  *)
(* time later it starts its watch on the directory, and runs its loop.      *)
(* Without any window it gives up, and the kernel frees the token.          *)
client_roster_update(c) ==
    /\ cl[c].st = "attach" /\ Todo(c) = {}
    /\ \/ /\ cl[c].conn # {}
          /\ cl' = [cl EXCEPT ![c].st = "listed", ![c].skip = {}]
          /\ UNCHANGED <<lock, wake>>
       \/ /\ cl[c].conn = {}
          /\ cl' = [cl EXCEPT ![c].st = "gone", ![c].skip = {}]
          /\ sessdir_token_release(c)
    /\ UNCHANGED <<up, msg, srv, toS, toC>>

(* Without a watch the client looks at the mailbox by a timer.              *)
sessdir_watch_start(c) ==
    /\ cl[c].st = "listed"
    /\ \E ok \in {TRUE, "nowatch" \notin Acts} :
          cl' = [cl EXCEPT ![c].st = "in", ![c].inotify = ok]
    /\ UNCHANGED <<up, lock, msg, wake, srv, toS, toC>>
-----------------------------------------------------------------------------
(* A ROLE_CHANGE (client_role_set): the sizing stance follows the role and  *)
(* is announced with the other flags, then the token is taken or let go.    *)
client_role_set(c, r) ==
    IF r = cl[c].role THEN UNCHANGED <<lock, toS, cl, wake>>
    ELSE /\ cl' = [cl EXCEPT ![c].role = r, ![c].obs = (r = "VIEW")]
         /\ IF cl[c].obs # (r = "VIEW") THEN role_announce(c, Flags(c)) ELSE UNCHANGED toS
         /\ IF r = "WRITE" THEN sessdir_token_acquire(c) ELSE sessdir_token_release(c)

ClientRead(c, w) ==
    /\ cl[c].st \in {"in", "stop"} /\ toC[c][w] # <<>>
    /\ client_role_set(c, Head(toC[c][w]))
    /\ toC' = [toC EXCEPT ![c][w] = Tail(@)]
    /\ UNCHANGED <<up, msg, srv>>

(* share_claim_token, with `left' tries remaining, by a client that has     *)
(* become r otherwise.                                                      *)
share_claim_token_silent(c, r, left) ==
    /\ sessdir_token_acquire(c)
    /\ cl' = [cl EXCEPT ![c] = IF acquired(c) THEN [r EXCEPT !.tries = 0, !.tok = TRUE]
                               ELSE [r EXCEPT !.tries = left - 1]]
    /\ UNCHANGED toS
share_claim_token(c, r, left) ==
    /\ sessdir_token_acquire(c)
    /\ IF acquired(c)
       THEN /\ cl' = [cl EXCEPT ![c] = [r EXCEPT !.tries = 0, !.tok = TRUE]]
            /\ role_announce(c, [Flags(c) EXCEPT !.token = TRUE])
       ELSE /\ cl' = [cl EXCEPT ![c] = [r EXCEPT !.tries = left - 1]]
            /\ UNCHANGED toS

share_claim_retry(c) ==
    /\ cl[c].st = "in" /\ cl[c].tries > 0
    /\ share_claim_token(c, cl[c], cl[c].tries)
    /\ UNCHANGED <<up, msg, srv, toC>>

(* on_sessdir_watch: look for new windows, then at the mailbox.             *)
on_sessdir_watch_undrained(c) ==
    /\ cl[c].st = "in" /\ c \in wake
    /\ cl' = [cl EXCEPT ![c].st = "watch"]
    /\ UNCHANGED <<up, lock, msg, wake, srv, toS, toC>>
on_sessdir_watch(c) ==
    /\ cl[c].st = "in" /\ c \in wake
    /\ wake' = wake \ {c}
    /\ cl' = [cl EXCEPT ![c].st = "watch"]
    /\ UNCHANGED <<up, lock, msg, srv, toS, toC>>

Kicks(c) ==
    msg.verb = "kick" /\ (msg.target = c \/ (msg.target = None /\ msg.actor # c))
Asks(c) ==
    msg.verb = "request" /\ msg.actor # c /\ cl[c].role = "WRITE"

(* share_ctl_poll: act on a message not seen before.  A kick ends the loop. *)
share_ctl_poll(c) ==
    LET read == [cl[c] EXCEPT !.st = "in", !.seen = msg.seq, !.skip = {}]
        old  == msg.seq <= cl[c].seen
    IN  /\ \/ /\ ~old /\ msg.verb = "grant" /\ msg.target = c
              /\ share_claim_token(c, read, Tries)
           \/ /\ ~old /\ msg.verb = "grant" /\ msg.target # c /\ lock = c
              /\ sessdir_token_release(c)
              /\ cl' = [cl EXCEPT ![c] = [read EXCEPT !.tok = FALSE]]
              /\ UNCHANGED toS
           \/ /\ ~old /\ ~(msg.verb = "grant" /\ c \in {msg.target, lock})
              /\ cl' = [cl EXCEPT ![c] =
                          [read EXCEPT !.st = IF Kicks(c) THEN "stop" ELSE @,
                                       !.req = IF Asks(c) THEN msg.actor ELSE @]]
              /\ UNCHANGED <<lock, wake, toS>>
           \/ /\ old
              /\ cl' = [cl EXCEPT ![c].st = "in", ![c].skip = {}]
              /\ UNCHANGED <<lock, wake, toS>>
        /\ UNCHANGED <<up, msg, srv, toC>>

(* It is called at the end of on_sessdir_watch, or by the timer of a client *)
(* that has no watch.                                                       *)
WatchPoll(c) == cl[c].st = "watch" /\ Todo(c) = {} /\ share_ctl_poll(c)
share_ctl_timer(c) == cl[c].st = "in" /\ ~cl[c].inotify /\ share_ctl_poll(c)
-----------------------------------------------------------------------------
(* What users do.                                                           *)

(* The share menu: give the keyboard away, ask for it, refuse, ask a client *)
(* to leave.                                                                *)
share_grant_to_held(c, t) ==
    /\ cl[c].st = "in" /\ cl[c].role = "WRITE" /\ t \in Roster \ {c} /\ UserPosts
    /\ cl' = [cl EXCEPT ![c].tok = FALSE, ![c].req = IF @ = t THEN None ELSE @]
    /\ sessdir_ctl_post("grant", t, c) /\ Changed
    /\ UNCHANGED <<up, lock, srv, toS, toC>>
share_grant_to(c, t) ==
    /\ cl[c].st = "in" /\ cl[c].role = "WRITE" /\ t \in Roster \ {c} /\ UserPosts
    /\ lock' = IF lock = c THEN None ELSE lock
    /\ cl' = [cl EXCEPT ![c].tok = FALSE, ![c].req = IF @ = t THEN None ELSE @]
    /\ sessdir_ctl_post("grant", t, c) /\ Changed
    /\ UNCHANGED <<up, srv, toS, toC>>

share_request(c) ==
    /\ cl[c].st = "in" /\ cl[c].role = "VIEW" /\ UserPosts
    /\ sessdir_ctl_post("request", None, c) /\ Changed
    /\ UNCHANGED <<up, lock, cl, srv, toS, toC>>

share_deny(c) ==
    /\ cl[c].st = "in" /\ cl[c].req # None /\ CanPost
    /\ sessdir_ctl_post("deny", cl[c].req, c) /\ Changed
    /\ cl' = [cl EXCEPT ![c].req = None]
    /\ UNCHANGED <<up, lock, srv, toS, toC>>

share_kick(c, t) ==
    /\ cl[c].st = "in" /\ t \in Roster \ {c} /\ UserPosts
    /\ sessdir_ctl_post("kick", t, c) /\ Changed
    /\ UNCHANGED <<up, lock, cl, srv, toS, toC>>

(* lumi share -g: posted by no client.                                      *)
ShareCommand(t) ==
    /\ t \in Roster /\ UserPosts
    /\ sessdir_ctl_post("grant", t, None) /\ Changed
    /\ UNCHANGED <<up, lock, cl, srv, toS, toC>>

Hangup(c) == [toS EXCEPT ![c] =
    [w \in Windows |-> IF w \in cl[c].conn THEN Append(@[w], [what |-> "eof"]) ELSE @[w]]]
Silence(c) == [toC EXCEPT ![c] = [w \in Windows |-> <<>>]]

(* mconn_disconnect_all, by the detach key or after the loop has ended (the *)
(* rest of a poll pass still runs after a kick); the layout is saved.       *)
mconn_disconnect_all(c) ==
    /\ toS' = Hangup(c) /\ toC' = Silence(c)
    /\ cl' = [cl EXCEPT ![c].st = "closed", ![c].conn = {}]
    /\ wake' = (wake \union Watchers) \ {c}
    /\ UNCHANGED <<up, lock, msg, srv>>

Detach(c) == cl[c].st = "in" /\ mconn_disconnect_all(c)
Leave(c) == cl[c].st = "stop" /\ mconn_disconnect_all(c)

(* Only then is the token let go.                                           *)
Exit(c) ==
    /\ cl[c].st = "closed"
    /\ sessdir_token_release(c)
    /\ cl' = [cl EXCEPT ![c].st = "gone"]
    /\ UNCHANGED <<up, msg, srv, toS, toC>>

(* The process is killed: the kernel closes everything it had open.         *)
Crash(c) ==
    /\ cl[c].st \notin {"out", "gone"}
    /\ toS' = Hangup(c) /\ toC' = Silence(c)
    /\ lock' = IF lock = c THEN None ELSE lock
    /\ wake' = (IF lock = c THEN wake \union Watchers ELSE wake) \ {c}
    /\ cl' = [cl EXCEPT ![c].st = "gone", ![c].conn = {}]
    /\ UNCHANGED <<up, msg, srv>>

NewWindow(w) ==
    /\ w \in Late \ up
    /\ up' = up \union {w} /\ Changed
    /\ UNCHANGED <<lock, msg, cl, srv, toS, toC>>
-----------------------------------------------------------------------------
(* What processes do on their own, given time.                              *)
Work(c) ==
    \/ client_claim_role(c) \/ sessdir_kick_others(c) \/ client_takeover(c)
    \/ \E w \in Windows : AttachWindow(c, w)
    \/ client_roster_update(c) \/ sessdir_watch_start(c) \/ on_sessdir_watch(c) \/ WatchPoll(c)
    \/ Leave(c) \/ Exit(c)

User(c) ==
    \/ ctl_seq_sync(c)
    \/ "grant" \in Acts /\ \E t \in Clients : share_grant_to(c, t)
    \/ "request" \in Acts /\ (share_request(c) \/ share_deny(c))
    \/ "kick" \in Acts /\ \E t \in Clients : share_kick(c, t)
    \/ "command" \in Acts /\ ShareCommand(c)
    \/ "detach" \in Acts /\ Detach(c)
    \/ "crash" \in Acts /\ Crash(c)
    \/ "skip" \in Acts /\ \E w \in Windows : SkipWindow(c, w)

Next ==
    \/ \E c \in Clients : Work(c) \/ User(c) \/ share_claim_retry(c) \/ share_ctl_timer(c)
    \/ \E c \in Clients, w \in Windows : ClientRead(c, w) \/ ServerRead(w, c)
    \/ \E w \in Late : NewWindow(w)

Spec == Init /\ [][Next]_vars

(* A process that has something to do gets to do it: the event loops poll   *)
(* all their descriptors and timers.                                        *)
Fair ==
    \A c \in Clients :
        /\ WF_vars(Work(c)) /\ WF_vars(share_claim_retry(c)) /\ WF_vars(share_ctl_timer(c))
        /\ \A w \in Windows : WF_vars(ClientRead(c, w)) /\ WF_vars(ServerRead(w, c))

FairSpec == Spec /\ Fair
-----------------------------------------------------------------------------
(* Every variable has its shape; a server's slots hold exactly the clients  *)
(* it has a role for; a client is connected only to windows that exist.     *)
TypeOK ==
    /\ up \subseteq Windows /\ wake \subseteq Clients
    /\ lock \in Clients \union {None}
    /\ msg.seq \in 0..MaxSeq
    /\ \A c \in Clients :
          /\ cl[c].role \in {"WRITE", "VIEW"} /\ cl[c].tries \in 0..Tries
          /\ cl[c].seen <= msg.seq /\ cl[c].conn \subseteq up
    /\ \A w \in Windows :
          /\ \A c \in Clients : srv[w].role[c] \in {"none", "WRITE", "VIEW"}
          /\ {srv[w].slot[i] : i \in Slots} \ {None} = Attached(w)

(* Nothing is under way: every message was read, no claim is being retried. *)
Idle ==
    /\ wake = {}
    /\ \A c \in Clients : cl[c].st \in {"out", "in", "gone"} /\ cl[c].tries = 0
    /\ \A c \in InLoop \ Watchers : cl[c].seen = msg.seq
    /\ \A c \in Clients, w \in Windows : toS[c][w] = <<>> /\ toC[c][w] = <<>>

(* A client in its loop is connected to every window once nothing is under  *)
(* way (mconn_refresh, driven by the watch).                                *)
Found == \A c \in InLoop : cl[c].conn = up
WindowsFound == Idle => Found

(* And no client missed a window or a grant posted to it before its watch   *)
(* began (if one was missed, the next change of the directory makes up).    *)
Unheard == {c \in InLoop : msg.verb = "grant" /\ msg.target = c /\ cl[c].seen < msg.seq}
Quiet == Idle /\ Found /\ Unheard = {}

(* Once things are quiet the keyboard is with the same clients on every     *)
(* window ("the lock is what makes the answer the same everywhere").        *)
SameEverywhere ==
    Quiet => \A v, w \in up : Writers(v) = Writers(w)

(* Once things are quiet a client's one idea of its role, which decides     *)
(* what mconn_ipc_send lets its user do, is the role every server has for   *)
(* it.                                                                      *)
BeliefTrue ==
    Quiet => \A w \in up : \A c \in InLoop : cl[c].role = srv[w].role[c]

(* Once things are quiet the holder of the token has the keyboard of every  *)
(* window.  The exception is a client started to watch: when it is granted  *)
(* the keyboard it takes the token, and its VIEW flag outranks that.        *)
HolderWrites ==
    Quiet => \A c \in Clients, w \in up :
                lock = c /\ cl[c].kind # "view" => c \in Writers(w)

(* Once things are quiet, and a client is attached that did not ask only to *)
(* watch, every window takes input from a client that knows it may type     *)
(* there.                                                                   *)
SomebodyTypes ==
    Quiet /\ (\E c \in InLoop : cl[c].kind # "view")
        => \A w \in up : \E c \in Writers(w) : cl[c].role = "WRITE"

(* A client started to watch never has the keyboard of a window, whoever    *)
(* leaves and whatever it is granted (IPC_ATTACH_F_VIEW).                   *)
ViewersWatch ==
    \A w \in up, c \in Clients : cl[c].kind = "view" => srv[w].role[c] # "WRITE"

(* A client that a server offers the keyboard becomes the recorded holder   *)
(* of the token with it (client_role_set).                                  *)
OfferRecorded ==
    [][\A c \in Clients :
          cl[c].st = "in" /\ cl[c].role = "VIEW" /\ cl'[c].role = "WRITE"
            => lock' = c]_vars

(* Clients and servers stop talking when their users do: announcements and  *)
(* role changes do not answer one another for ever.                         *)
Settles == []<>Idle

(* A client that is granted the keyboard, and sees the directory change or  *)
(* polls it by the timer, gets it on every window, unless it leaves or      *)
(* another message replaces the grant.                                      *)
KeyboardArrives ==
    \A t \in Clients :
        (msg.verb = "grant" /\ msg.target = t /\ t \in InLoop /\ (t \in wake \/ ~cl[t].inotify))
          ~> (\/ t \notin InLoop \/ msg.target # t
              \/ \A w \in up : t \in Writers(w))
=============================================================================
