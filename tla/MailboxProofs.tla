---------------------------- MODULE MailboxProofs ----------------------------
(***************************************************************************)
(* Proofs about the mailbox control.msg (module Mailbox), for every number  *)
(* of posters, readers and posts, whichever of them overlap, die or find    *)
(* the disk full.                                                           *)
(***************************************************************************)
EXTENDS Mailbox, FiniteSetTheorems, TLAPS

(* The steps of a sessdir_ctl_post under way.                               *)
Posting == {"open", "write", "rename", "unlink"}

(* Every variable has its type.  A post under way has a number, and from    *)
(* its fopen on a file.                                                     *)
MailType ==
    /\ {live, temp} \subseteq used \union {0} /\ used \subseteq Inodes
    /\ line \in [Inodes -> Nat]
    /\ post \in [Posters -> [at : {"idle", "dead"} \union Posting, seq : Nat,
                             fd : used \union {0}, left : Nat]]
    /\ upset \in BOOLEAN
    /\ \A p \in Posters : /\ post[p].at \in Posting => post[p].seq # 0
                          /\ post[p].at = "write" => post[p].fd # 0

(* The two names never lead to one file.                                    *)
Apart == live # 0 => live # temp

(* A poster has the file i open and has not written its line.               *)
Writing(i) == \E p \in Posters : post[p].at = "write" /\ post[p].fd = i

(* A file is empty only while one that opened it has yet to write, or after *)
(* one has died or failed before it wrote.                                  *)
EmptyMeanwhile == \A i \in used : line[i] = 0 => i \in short \/ Writing(i)

(* While nothing has gone wrong at most one post is under way, the file it  *)
(* has open is the one under the temporary name, which before the rename    *)
(* has its line, and so has control.msg.                                    *)
Undisturbed ==
    /\ \A p, q \in Posters : post[p].at \in Posting /\ post[q].at \in Posting => p = q
    /\ \A p \in Posters :
          /\ post[p].at = "write" => post[p].fd = temp
          /\ post[p].at = "rename" => temp # 0 /\ line[temp] # 0
    /\ live # 0 => line[live] # 0

(* The inductive invariant.  Intact is not inductive alone: that the file   *)
(* renamed into place has its line, or is being written, has to be known    *)
(* of every file, and that it has it while no post has met another, of the  *)
(* file under the temporary name.                                           *)
MailInv == MailType /\ Apart /\ EmptyMeanwhile /\ (~upset => Undisturbed)

(* 0 names no file.                                                         *)
LEMMA InodesCount == Inodes \subseteq Nat \ {0}
<1>1. Cardinality(Posters) * Posts \in Nat
  BY MailboxAssumption, FS_CardinalityType
<1>2. QED
  BY <1>1 DEF Inodes

(* sessdir_ctl_read returns a number.                                       *)
LEMMA ReadNumber == ASSUME MailType PROVE sessdir_ctl_read \in Nat
BY DEF MailType, sessdir_ctl_read

(* An empty session directory satisfies the invariant.                      *)
LEMMA MailInitial == Init => MailInv
<1> SUFFICES ASSUME Init PROVE MailInv
  OBVIOUS
<1>1. line \in [Inodes -> Nat]
  BY DEF Init
<1>2. \A p \in Posters : post[p] = [at |-> "idle", seq |-> 0, fd |-> 0, left |-> Posts]
  BY DEF Init
<1>3. post \in [Posters -> [at : {"idle", "dead"} \union Posting, seq : Nat,
                            fd : used \union {0}, left : Nat]]
  BY MailboxAssumption DEF Init
<1>4. MailType
  BY Zenon, <1>1, <1>2, <1>3 DEF Init, MailType, Posting
<1>5. Apart /\ EmptyMeanwhile /\ Undisturbed
  BY <1>2 DEF Init, Apart, EmptyMeanwhile, Undisturbed, Posting
<1>6. QED
  BY <1>4, <1>5 DEF MailInv

(* A post that begins while another is under way is noted in upset.         *)
LEMMA BeginKeeps ==
    ASSUME MailInv, NEW p \in Posters, Begin(p) PROVE MailInv'
<1>0. sessdir_ctl_read + 1 \in Nat \ {0}
  BY ReadNumber DEF MailInv
<1>1. MailType' /\ Apart'
  BY <1>0 DEF Begin, MailInv, MailType, Apart, Posting
<1>2. EmptyMeanwhile'
  <2>1. ASSUME NEW i \in used, Writing(i) PROVE Writing(i)'
    BY <2>1 DEF Begin, MailInv, MailType, Writing
  <2>2. QED
    BY <2>1 DEF Begin, MailInv, EmptyMeanwhile
<1>3. ASSUME ~upset' PROVE Undisturbed'
  <2>1. ~upset /\ \A q \in Posters : post[q].at \notin Posting
    BY <1>3 DEF Begin, Busy, MailInv, MailType, Posting
  <2>2. QED
    BY <2>1 DEF Begin, MailInv, MailType, Undisturbed, Posting
<1>4. QED
  BY <1>1, <1>2, <1>3 DEF MailInv

(* fopen empties only the file it opens for its own line.                   *)
LEMMA OpenKeeps ==
    ASSUME MailInv, NEW p \in Posters, Open(p) PROVE MailInv'
<1>1. PICK i \in IF temp # 0 THEN {temp} ELSE {j \in Inodes : j \notin used} :
          /\ temp' = i /\ used' = used \union {i}
          /\ line' = [line EXCEPT ![i] = 0]
          /\ post' = [post EXCEPT ![p].at = "write", ![p].fd = i]
  BY Zenon DEF Open
<1>2. i \in Inodes /\ i # 0 /\ (live # 0 => live # i)
  BY <1>1, InodesCount DEF MailInv, MailType, Apart
<1>3. MailType' /\ Apart'
  <2>1. post' \in [Posters -> [at : {"idle", "dead"} \union Posting, seq : Nat,
                               fd : used' \union {0}, left : Nat]]
    <3>1. post \in [Posters -> [at : {"idle", "dead"} \union Posting, seq : Nat,
                                fd : used' \union {0}, left : Nat]]
      BY <1>1 DEF MailInv, MailType
    <3>2. "write" \in {"idle", "dead"} \union Posting /\ i \in used' \union {0}
      BY <1>1 DEF Posting
    <3>3. post' = [post EXCEPT ![p].at = "write", ![p].fd = i]
      BY <1>1
    <3>4. QED
      BY ZenonT(30), <3>1, <3>2, <3>3
  <2>2. \A q \in Posters : /\ post'[q].at \in Posting => post'[q].seq # 0
                           /\ post'[q].at = "write" => post'[q].fd # 0
    BY <1>1, <1>2 DEF Open, MailInv, MailType, Posting
  <2>3. line' \in [Inodes -> Nat]
    BY <1>1, <1>2 DEF MailInv, MailType
  <2>4. QED
    BY <1>1, <1>2, <2>1, <2>2, <2>3 DEF Open, MailInv, MailType, Apart
<1>4. EmptyMeanwhile'
  <2>1. ASSUME NEW j \in used', line'[j] = 0 PROVE j \in short' \/ Writing(j)'
    <3>1. CASE j = i
      <4>1. post'[p].at = "write" /\ post'[p].fd = i
        BY <1>1 DEF MailInv, MailType
      <4>2. QED
        BY <3>1, <4>1 DEF Writing
    <3>2. CASE j # i
      <4>1. j \in used /\ line[j] = 0
        BY <1>1, <1>2, <2>1, <3>2 DEF MailInv, MailType
      <4>2. CASE j \in short
        BY <4>2 DEF Open
      <4>3. CASE Writing(j)
        <5>1. PICK q \in Posters : post[q].at = "write" /\ post[q].fd = j
          BY <4>3 DEF Writing
        <5>2. q # p
          BY <5>1 DEF Open
        <5>3. post'[q] = post[q]
          BY <1>1, <5>2 DEF MailInv, MailType
        <5>4. QED
          BY <5>1, <5>3 DEF Writing
      <4>4. QED
        BY <4>1, <4>2, <4>3 DEF MailInv, EmptyMeanwhile
    <3>3. QED
      BY <3>1, <3>2
  <2>2. QED
    BY <2>1 DEF EmptyMeanwhile
<1>5. ASSUME ~upset' PROVE Undisturbed'
  <2>1. ~upset /\ post[p].at = "open"
    BY <1>5 DEF Open
  <2>2. \A q \in Posters : q # p => post[q].at \notin Posting /\ post'[q] = post[q]
    BY <1>1, <2>1 DEF MailInv, MailType, Undisturbed, Posting
  <2>3. post'[p].at = "write" /\ post'[p].fd = temp'
    BY <1>1 DEF MailInv, MailType
  <2>4. live # 0 => line'[live] # 0
    BY <1>1, <1>2, <2>1 DEF MailInv, MailType, Undisturbed
  <2>5. QED
    BY Zenon, <2>2, <2>3, <2>4 DEF Open, Undisturbed, Posting
<1>6. QED
  BY <1>3, <1>4, <1>5 DEF MailInv

(* fclose writes the line to the file that was opened, wherever that is     *)
(* now; what it cannot write is noted in short.                             *)
LEMMA FlushKeeps ==
    ASSUME MailInv, NEW p \in Posters, Flush(p) PROVE MailInv'
<1> DEFINE i == post[p].fd
<1>0. /\ post[p].at = "write" /\ post[p].seq \in Nat \ {0} /\ i \in used /\ i \in Inodes
      /\ post' = [post EXCEPT ![p].at = "rename"]
  BY DEF Flush, At, MailInv, MailType, Posting
<1>1. MailType' /\ Apart'
  BY ZenonT(30), <1>0 DEF Flush, MailInv, MailType, Apart, Posting
<1>2. EmptyMeanwhile'
  <2>1. ASSUME NEW j \in used', line'[j] = 0 PROVE j \in short' \/ Writing(j)'
    <3>1. CASE j = i
      BY <1>0, <2>1, <3>1 DEF Flush, MailInv, MailType
    <3>2. CASE j # i
      <4>1. j \in used /\ line[j] = 0
        BY <1>0, <2>1, <3>2 DEF Flush, MailInv, MailType
      <4>2. CASE j \in short
        BY <3>2, <4>2 DEF Flush
      <4>3. CASE Writing(j)
        <5>1. PICK q \in Posters : post[q].at = "write" /\ post[q].fd = j
          BY <4>3 DEF Writing
        <5>2. post'[q] = post[q]
          BY <1>0, <3>2, <5>1 DEF MailInv, MailType
        <5>3. QED
          BY <5>1, <5>2 DEF Writing
      <4>4. QED
        BY <4>1, <4>2, <4>3 DEF MailInv, EmptyMeanwhile
    <3>3. QED
      BY <3>1, <3>2
  <2>2. QED
    BY <2>1 DEF EmptyMeanwhile
<1>3. ASSUME ~upset' PROVE Undisturbed'
  <2>1. ~upset /\ line' = [line EXCEPT ![i] = post[p].seq]
    BY <1>3 DEF Flush
  <2>2. i = temp /\ temp # 0
    BY <1>0, <2>1, InodesCount DEF MailInv, MailType, Undisturbed
  <2>3. \A q \in Posters : q # p => post[q].at \notin Posting /\ post'[q] = post[q]
    BY <1>0, <2>1 DEF MailInv, MailType, Undisturbed, Posting
  <2>4. temp' # 0 /\ post'[p].at = "rename" /\ line'[temp'] # 0
    BY <1>0, <2>1, <2>2 DEF Flush, MailInv, MailType
  <2>5. live' # 0 => line'[live'] # 0
    BY <1>0, <2>1, <2>2 DEF Flush, MailInv, MailType, Undisturbed, Apart
  <2>6. QED
    BY <2>3, <2>4, <2>5 DEF Undisturbed, Posting
<1>4. QED
  BY <1>1, <1>2, <1>3 DEF MailInv

(* The death of a poster with a file open is noted in short.                *)
LEMMA KillKeeps ==
    ASSUME MailInv, NEW p \in Posters, Kill(p) PROVE MailInv'
<1>0. \A q \in Posters : q # p => post'[q] = post[q]
  BY DEF Kill, MailInv, MailType
<1>1. MailType' /\ Apart' /\ post'[p].at = "dead"
  BY DEF Kill, MailInv, MailType, Apart, Posting
<1>2. EmptyMeanwhile'
  <2>1. ASSUME NEW j \in used, line[j] = 0 PROVE j \in short' \/ Writing(j)'
    <3>1. CASE j \in short
      BY <3>1 DEF Kill
    <3>2. CASE Writing(j)
      <4>1. PICK q \in Posters : post[q].at = "write" /\ post[q].fd = j
        BY <3>2 DEF Writing
      <4>2. CASE q = p
        BY <4>1, <4>2 DEF Kill
      <4>3. CASE q # p
        BY <1>0, <4>1, <4>3 DEF Writing
      <4>4. QED
        BY <4>2, <4>3
    <3>3. QED
      BY <2>1, <3>1, <3>2 DEF MailInv, EmptyMeanwhile
  <2>2. QED
    BY <2>1 DEF Kill, EmptyMeanwhile
<1>3. ASSUME ~upset' PROVE Undisturbed'
  <2>1. ~upset
    BY <1>3 DEF Kill
  <2>2. QED
    BY <1>0, <1>1, <2>1 DEF Kill, MailInv, Undisturbed, Posting
<1>4. QED
  BY <1>1, <1>2, <1>3 DEF MailInv

(* The steps that write no file: a failed fopen, the rename, the removal of *)
(* the temporary name after a rename that failed.                           *)
LEMMA NamesKeep ==
    ASSUME MailInv, NEW p \in Posters, OpenFails(p) \/ Rename(p) \/ Unlink(p)
    PROVE  MailInv'
<1>0. /\ post[p].at \in {"open", "rename", "unlink"}
      /\ \E to \in {"idle", "unlink"} : post' = [post EXCEPT ![p].at = to]
      /\ UNCHANGED <<line, used, short, upset>>
  BY DEF OpenFails, Rename, Unlink, At
<1>1. \A q \in Posters : q # p => post'[q] = post[q]
  BY <1>0 DEF MailInv, MailType
<1>2. /\ post'[p].at \in {"idle", "unlink"}
      /\ post'[p].seq = post[p].seq /\ post'[p].fd = post[p].fd
  BY <1>0 DEF MailInv, MailType
<1>3. MailType'
  <2>1. post' \in [Posters -> [at : {"idle", "dead"} \union Posting, seq : Nat,
                               fd : used \union {0}, left : Nat]]
    BY <1>0 DEF MailInv, MailType, Posting
  <2>2. {live', temp'} \subseteq used \union {0}
    BY DEF OpenFails, Rename, Unlink, MailInv, MailType
  <2>3. \A q \in Posters : /\ post'[q].at \in Posting => post'[q].seq # 0
                           /\ post'[q].at = "write" => post'[q].fd # 0
    BY <1>0, <1>1, <1>2 DEF MailInv, MailType, Posting
  <2>4. QED
    BY <1>0, <2>1, <2>2, <2>3 DEF MailInv, MailType
<1>4. Apart'
  BY DEF OpenFails, Rename, Unlink, MailInv, MailType, Apart
<1>5. EmptyMeanwhile'
  <2>1. ASSUME NEW j \in used, Writing(j) PROVE Writing(j)'
    BY <1>0, <1>1, <2>1 DEF Writing
  <2>2. QED
    BY <1>0, <2>1 DEF MailInv, EmptyMeanwhile
<1>6. ASSUME ~upset' PROVE Undisturbed'
  <2>1. ~upset /\ post[p].at \in Posting
    BY <1>0, <1>6 DEF Posting
  <2>2. \A q \in Posters : q # p => post'[q].at \notin Posting
    BY <1>1, <2>1 DEF MailInv, Undisturbed
  <2>3. live' # 0 => line'[live'] # 0
    BY <1>0, <2>1 DEF OpenFails, Rename, Unlink, At, MailInv, Undisturbed
  <2>4. QED
    BY <1>2, <2>2, <2>3 DEF Undisturbed, Posting
<1>7. QED
  BY <1>3, <1>4, <1>5, <1>6 DEF MailInv

(* Every step keeps the invariant; a reader changes nothing of it.          *)
LEMMA MailStep == ASSUME MailInv, [Next]_vars PROVE MailInv'
<1>1. ASSUME UNCHANGED <<live, temp, line, used, post, short, upset>> PROVE MailInv'
  BY <1>1 DEF MailInv, MailType, Apart, EmptyMeanwhile, Writing, Undisturbed
<1>2. CASE UNCHANGED vars
  BY <1>1, <1>2 DEF vars
<1>3. ASSUME NEW r \in Readers, Poll(r) PROVE MailInv'
  BY <1>1, <1>3 DEF Poll
<1>4. QED
  BY <1>2, <1>3, BeginKeeps, OpenKeeps, FlushKeeps, KillKeeps, NamesKeep DEF Next

(* A reader of control.msg never finds it empty because a poster died, at   *)
(* whatever point of sessdir_ctl_post.  When posts overlap, or a disk is    *)
(* full, it may, and then only until the poster that emptied it closes it,  *)
(* unless that one dies or cannot write: for any number of posters and      *)
(* posts.                                                                   *)
THEOREM MailIntact == Spec => []Intact
<1>1. MailInv /\ [Next]_vars => MailInv'
  BY MailStep
<1>2. MailInv => Intact
  BY DEF MailInv, MailType, EmptyMeanwhile, Writing, Undisturbed, Intact
<1>3. QED
  BY MailInitial, <1>1, <1>2, PTL DEF Spec
=============================================================================
