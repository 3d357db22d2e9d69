------------------------------ MODULE Mailbox -------------------------------
(***************************************************************************)
(* The file control.msg, through which clients and commands reach the       *)
(* clients of a session, at the level of the calls that sessdir_ctl_post    *)
(* makes (src/libsessdir/sessdir_control.c).  The module Share takes a post *)
(* to be one step; this one shows when that is right.                       *)
(*                                                                          *)
(* A post reads the last sequence number, writes control.msg.new and        *)
(* renames it.  No lock is taken and every poster uses the same temporary   *)
(* name, so a file is an inode here: two names lead to inodes, and a poster *)
(* writes to the inode it opened wherever that has been renamed to.         *)
(***************************************************************************)
EXTENDS Naturals, FiniteSets

CONSTANTS
    Posters,    \* processes that post
    Readers,    \* attached clients
    Posts,      \* bound: posts each poster makes
    Full,       \* whether the disk may be full
    Crashes     \* whether a poster may be killed half way

ASSUME MailboxAssumption ==
    IsFiniteSet(Posters) /\ Posts \in Nat /\ {Full, Crashes} \subseteq BOOLEAN

Inodes == 1..(Cardinality(Posters) * Posts)

VARIABLES
    live,       \* the inode control.msg names, 0 for none
    temp,       \* the inode control.msg.new names, 0 for none
    line,       \* what each inode holds: a sequence number, 0 when empty
    used,       \* the inodes that were ever created
    post,       \* where each poster is
    seen,       \* ctl_seq_seen of each reader
    short,      \* history: inodes whose writer died or failed before its line
    upset       \* history: two posts have overlapped, or a line was lost

vars == <<live, temp, line, used, post, seen, short, upset>>

Init ==
    /\ live = 0 /\ temp = 0
    /\ line = [i \in Inodes |-> 0]
    /\ used = {}
    /\ post = [p \in Posters |-> [at |-> "idle", seq |-> 0, fd |-> 0, left |-> Posts]]
    /\ seen = [r \in Readers |-> 0]
    /\ short = {} /\ upset = FALSE

(* sessdir_ctl_read: the sequence number, or 0 when there is nothing to     *)
(* read.                                                                    *)
sessdir_ctl_read == IF live = 0 THEN 0 ELSE line[live]

At(p, from, to) == post[p].at = from /\ post' = [post EXCEPT ![p].at = to]

(* The first thing a post does is to read the number of the last one.       *)
Busy == {q \in Posters : post[q].at \notin {"idle", "dead"}}
Begin(p) ==
    /\ post[p].at = "idle" /\ post[p].left > 0
    /\ post' = [post EXCEPT ![p].at = "open", ![p].seq = sessdir_ctl_read + 1,
                            ![p].left = @ - 1]
    /\ upset' = (upset \/ Busy # {})
    /\ UNCHANGED <<live, temp, line, used, seen, short>>

(* fopen(tmp, "w"): the file that is there, emptied, or a new one.          *)
Open_live(p) ==
    /\ post[p].at = "open"
    /\ \E i \in IF live # 0 THEN {live} ELSE {j \in Inodes : j \notin used} :
          /\ temp' = i /\ used' = used \union {i}
          /\ line' = [line EXCEPT ![i] = 0]
          /\ post' = [post EXCEPT ![p].at = "write", ![p].fd = i]
    /\ UNCHANGED <<live, seen, short, upset>>
Open(p) ==
    /\ post[p].at = "open"
    /\ \E i \in IF temp # 0 THEN {temp} ELSE {j \in Inodes : j \notin used} :
          /\ temp' = i /\ used' = used \union {i}
          /\ line' = [line EXCEPT ![i] = 0]
          /\ post' = [post EXCEPT ![p].at = "write", ![p].fd = i]
    /\ UNCHANGED <<live, seen, short, upset>>
OpenFails(p) ==
    /\ Full /\ At(p, "open", "idle")
    /\ UNCHANGED <<live, temp, line, used, seen, short, upset>>

(* fclose: the buffered line reaches the inode, whole, or not at all when   *)
(* the disk is full.  Its result is ignored.                                *)
Flush(p) ==
    LET i == post[p].fd IN
    /\ At(p, "write", "rename")
    /\ \/ /\ line' = [line EXCEPT ![i] = post[p].seq]
          /\ short' = short \ {i}
          /\ UNCHANGED upset
       \/ /\ Full
          /\ short' = short \union {i}
          /\ upset' = TRUE
          /\ UNCHANGED line
    /\ UNCHANGED <<live, temp, used, seen>>

(* rename: of whatever has the temporary name now.  Without one it fails,   *)
(* and then the name is removed, whoever has created it again since.        *)
Rename_copy(p) ==
    /\ \/ /\ temp # 0 /\ At(p, "rename", "idle")
          /\ live' = temp
       \/ /\ temp = 0 /\ At(p, "rename", "unlink")
          /\ UNCHANGED live
    /\ UNCHANGED <<temp, line, used, seen, short, upset>>
Rename(p) ==
    /\ \/ /\ temp # 0 /\ At(p, "rename", "idle")
          /\ live' = temp /\ temp' = 0
       \/ /\ temp = 0 /\ At(p, "rename", "unlink")
          /\ UNCHANGED <<live, temp>>
    /\ UNCHANGED <<line, used, seen, short, upset>>
Unlink(p) ==
    /\ At(p, "unlink", "idle")
    /\ temp' = 0
    /\ UNCHANGED <<live, line, used, seen, short, upset>>

Kill(p) ==
    /\ Crashes /\ post[p].at # "dead"
    /\ post' = [post EXCEPT ![p].at = "dead"]
    /\ short' = IF post[p].at = "write" THEN short \union {post[p].fd} ELSE short
    /\ UNCHANGED <<live, temp, line, used, seen, upset>>

(* share_ctl_poll, up to the verb.                                          *)
Poll_skip(r) ==
    /\ sessdir_ctl_read > seen[r] + 1
    /\ seen' = [seen EXCEPT ![r] = sessdir_ctl_read]
    /\ UNCHANGED <<live, temp, line, used, post, short, upset>>
Poll(r) ==
    /\ sessdir_ctl_read > seen[r]
    /\ seen' = [seen EXCEPT ![r] = sessdir_ctl_read]
    /\ UNCHANGED <<live, temp, line, used, post, short, upset>>

Next ==
    \/ \E p \in Posters :
          Begin(p) \/ Open(p) \/ OpenFails(p) \/ Flush(p) \/ Rename(p) \/ Unlink(p) \/ Kill(p)
    \/ \E r \in Readers : Poll(r)

Fair == \A r \in Readers : WF_vars(Poll(r))
Spec == Init /\ [][Next]_vars /\ Fair
-----------------------------------------------------------------------------
(* Every variable has its shape, and the two names never lead to one inode. *)
TypeOK ==
    /\ {live, temp} \subseteq used \union {0} /\ short \subseteq used
    /\ used \subseteq Inodes /\ upset \in BOOLEAN
    /\ line \in [Inodes -> 0..Cardinality(Inodes)]
    /\ \A p \in Posters : post[p].at \in {"idle", "open", "write", "rename", "unlink", "dead"}
    /\ live # 0 => live # temp

(* Write-and-rename (sessdir_ctl_post): a poster that dies never leaves a   *)
(* reader an empty control.msg.  Posts that overlap can, and so can a full  *)
(* disk; then the file is empty only until the poster that emptied it       *)
(* closes it, unless that one dies or cannot write.                         *)
Intact ==
    live # 0 /\ line[live] = 0
        => upset /\ (live \in short \/ \E p \in Posters : post[p].at = "write" /\ post[p].fd = live)

(* Every client comes to act on the message that stays in the mailbox       *)
(* (share_ctl_poll), whatever it missed and whichever posters died, unless  *)
(* posts have overlapped or a line was lost: numbers are then used again.   *)
Heard == <>[](upset \/ \A r \in Readers : sessdir_ctl_read \in {0, seen[r]})

(* "It rises with each post" (sessdir_control.h), which is what makes a     *)
(* client act on each message.  Posts that overlap violate it.              *)
SeqRises == [][live' # live => line'[live'] > sessdir_ctl_read]_vars
=============================================================================
