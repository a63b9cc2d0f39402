---------------------------- MODULE Servers_proofs ----------------------------
(***************************************************************************)
(* The two servers that viewers receive a stream from.  The type of        *)
(* HlsServer, and what its entry and its playlist list, for any number of  *)
(* runs, segments and receivers; the type of WebRtcServer and what a stop  *)
(* leaves behind, for any set of peers and any number of starts.           *)
(*                                                                         *)
(* A writer is worked on under its lock (Locks).  That the numbers stay    *)
(* within the type needs that the receivers at work after an overlap share *)
(* one writer (Alike), so that one of them and stop_stream at most publish *)
(* past the bound (Bounded).  Without an overlap everybody at work is on   *)
(* the writer of the stream's own run (Tidy), and the open segment is the  *)
(* one after the last listed (Numbered).                                   *)
(*                                                                         *)
(* StopClearsPeers is not inductive: while a stop is under way the peers   *)
(* in the table are those it has still to list, those on its list, or the  *)
(* late ones; and a creation that can still insert a peer once the stream  *)
(* is gone must be one the stop found past its check (StopInv).            *)
(***************************************************************************)
EXTENDS HlsServer, WebRtcServer, SequenceTheorems, TLAPS

HandRecord == [at : {"idle", "lock", "flush", "publish", "new", "create"},
               writer : {None} \cup Open, number : Numbers \cup {NoSegment}]
Listing == [run : {None} \cup Open, first : Nat, segments : Seq(Numbers)]

Holding(h) == hand[h].at \in {"flush", "publish", "new", "create"}

(* What start_stream, stop_stream and the task go through, and that        *)
(* stop_stream has a hand on a writer just while it finalizes.             *)
Busy ==
    /\ doing["start"] \in {"idle", "writer", "bind", "read", "write"}
    /\ doing["stop"] \in {"idle", "finalize", "remove", "remove_writer", "read", "write"}
    /\ doing["task"] \in {"idle", "read", "write"}
    /\ doing["start"] # "idle" => runs # 0
    /\ hand[Stopper].at # "idle" <=> doing["stop"] = "finalize"
    /\ hand[Stopper].at # "create"

(* A writer has one holder, who knows whether it has an open segment.      *)
Locks ==
    /\ \A h, g \in Hands : h # g /\ Holding(h) /\ Holding(g) => hand[h].writer # hand[g].writer
    /\ \A h \in Hands : hand[h].at # "idle" => hand[h].writer # None
    /\ \A h \in Hands : hand[h].at = "flush" => segment[hand[h].writer] # NoSegment
    /\ \A h \in Hands :
         hand[h].at \in {"publish", "new", "create"} => segment[hand[h].writer] = NoSegment
    /\ \A h \in Hands : hand[h].at \in {"publish", "create"} => hand[h].number # NoSegment

(* Until an overlap, everybody is at work on the registered writer, and a  *)
(* writer is registered with its stream.                                   *)
Tidy ==
    ~overlapped =>
        /\ registered # None => \A h \in Hands : hand[h].at # "idle" => hand[h].writer = registered
        /\ registered # None => Listed \/ doing["stop"] = "remove_writer"
        /\ doing["start"] # "idle" => doing["stop"] = "idle"
        /\ doing["start"] = "writer" =>
             registered = None /\ Listed /\ \A h \in Hands : hand[h].at = "idle"

(* The receivers at work share one writer, after an overlap too.           *)
Alike ==
    \A h, g \in Open : hand[h].at # "idle" /\ hand[g].at # "idle" => hand[h].writer = hand[g].writer

(* stop_stream may have published into the entry it is about to remove.    *)
LastPublished == hand[Stopper].at = "new" \/ doing["stop"] = "remove"
Putting == \E h \in Open : hand[h].at = "publish"

Bounded ==
    /\ Putting => MaxNumber # 0
    /\ stream.next + (IF Putting THEN 1 ELSE 0) <= MaxNumber + (IF LastPublished THEN 1 ELSE 0)

Shape == HlsTypeOK /\ Busy /\ Locks
HlsInv == Shape /\ Tidy /\ Alike /\ Bounded
-----------------------------------------------------------------------------
(* Facts about the operators.                                              *)

LEMMA NumbersAre ==
    /\ Numbers \subseteq Nat /\ NoSegment \notin Numbers /\ NoSegment \in Nat
    /\ Stopper \in Hands /\ Stopper \notin Open /\ Open \subseteq Hands /\ None \notin Open
    /\ \A h \in Hands : h # Stopper => h \in Open
BY HlsAssumption DEF Numbers, NoSegment, Stopper, Hands, Open, None

LEMMA HandsTyped ==
    ASSUME HlsTypeOK
    PROVE  hand \in [Hands -> HandRecord]
BY DEF HlsTypeOK, HandRecord

(* The number to be read next is one a segment can have.                   *)
LEMMA NextNumber ==
    ASSUME HlsTypeOK, Bounded
    PROVE  stream.next \in Numbers
<1>1. stream.next \in Nat
  BY DEF HlsTypeOK
<1> QED BY <1>1, HlsAssumption DEF Bounded, Numbers

LEMMA StartsTyped ==
    ASSUME Shape, InsertStream \/ InsertWriter \/ StartReceiver \/ BindFails
    PROVE  HlsTypeOK'
<1>a. HlsTypeOK /\ Busy
  BY DEF Shape
<1> USE DEF HlsTypeOK, Advance, Updaters
<1>b. runs \in Nat /\ runs <= MaxRuns /\ (doing["start"] # "idle" => runs \in Open)
  BY <1>a, HlsAssumption DEF Busy, Open
<1>1. CASE InsertStream
  <2>1. runs + 1 \in Open /\ runs + 1 \in 0..MaxRuns
    BY <1>b, <1>1, HlsAssumption DEF InsertStream, Open
  <2>2. stream' \in [run : {None} \cup Open, segments : Seq(Numbers), next : Nat]
    BY <1>1, <2>1, EmptySeq DEF InsertStream, NoStream
  <2>3. overlapped' \in BOOLEAN
    BY <1>1 DEF InsertStream
  <2> QED BY <1>a, <1>1, <2>1, <2>2, <2>3 DEF InsertStream
<1>2. CASE InsertWriter
  BY <1>a, <1>b, <1>2 DEF InsertWriter
<1>3. CASE StartReceiver
  BY <1>a, <1>b, <1>3 DEF StartReceiver
<1>4. CASE BindFails
  BY <1>a, <1>4 DEF BindFails
<1> QED BY <1>1, <1>2, <1>3, <1>4

LEMMA HandTyped ==
    ASSUME Shape, Bounded, NEW h \in Hands, HandStep(h)
    PROVE  HlsTypeOK'
<1>a. HlsTypeOK /\ Busy /\ Locks
  BY DEF Shape
<1>b. hand \in [Hands -> HandRecord] /\ Free \in HandRecord /\ registered \in {None} \cup Open
  BY <1>a, HandsTyped DEF Free, HandRecord, HlsTypeOK
<1>0. ASSUME hand' \in [Hands -> HandRecord],
             UNCHANGED <<stream, registered, receivers, files, playlist, copy, tasks, runs, overlapped>>,
             segment' \in [Open -> Numbers \cup {NoSegment}],
             doing' = doing \/ doing' = [doing EXCEPT !["stop"] = "idle"]
      PROVE  HlsTypeOK'
  BY <1>a, <1>0 DEF HlsTypeOK, HandRecord
<1>1. CASE ReceivePacket(h)
  <2>1. hand' \in [Hands -> HandRecord]
    BY <1>b, <1>1 DEF ReceivePacket, HandRecord
  <2> QED BY <1>a, <1>0, <1>1, <2>1 DEF ReceivePacket, HlsTypeOK
<1>2. CASE LockWriter(h)
  <2>1. hand' \in [Hands -> HandRecord]
    BY <1>b, <1>2 DEF LockWriter, HandRecord
  <2> QED BY <1>a, <1>0, <1>2, <2>1 DEF LockWriter, HlsTypeOK
<1>3. CASE AppendData(h) \/ NoNewSegment(h)
  <2>1. hand' \in [Hands -> HandRecord]
    BY <1>b, <1>3 DEF AppendData, NoNewSegment, LetGo
  <2> QED BY <1>a, <1>0, <1>3, <2>1 DEF AppendData, NoNewSegment, HlsTypeOK
<1>4. CASE FlushSegment(h)
  <2>1. hand[h].writer \in Open /\ segment[hand[h].writer] \in Numbers \cup {NoSegment}
    BY <1>a, <1>b, <1>4 DEF FlushSegment, Locks, HandRecord, HlsTypeOK
  <2>2. hand' \in [Hands -> HandRecord]
    BY <1>b, <1>4, <2>1 DEF FlushSegment, HandRecord
  <2> QED BY <1>a, <1>0, <1>4, <2>2 DEF FlushSegment, HlsTypeOK
<1>5. CASE FlushFails(h)
  <2>1. hand' \in [Hands -> HandRecord]
    BY <1>b, <1>5 DEF FlushFails, LetGo
  <2> QED BY <1>a, <1>0, <1>5, <2>1 DEF FlushFails, HlsTypeOK
<1>6. CASE PublishSegment(h)
  <2>1. hand' \in [Hands -> HandRecord]
    BY <1>b, <1>6 DEF PublishSegment, HandRecord
  <2>2. hand[h].number \in Numbers
    BY <1>a, <1>b, <1>6 DEF PublishSegment, Locks, HandRecord
  <2>3. Append(stream.segments, hand[h].number) \in Seq(Numbers)
    BY <1>a, <2>2, AppendProperties DEF HlsTypeOK
  <2>4. stream' \in [run : {None} \cup Open, segments : Seq(Numbers), next : Nat]
    <3>1. CASE Listed
      <4>1. stream' = [stream EXCEPT !.segments = Append(stream.segments, hand[h].number),
                                     !.next = stream.next + 1]
        BY <1>6, <3>1 DEF PublishSegment
      <4>2. stream.next + 1 \in Nat
        BY <1>a DEF HlsTypeOK
      <4> QED BY <1>a, <2>3, <4>1, <4>2 DEF HlsTypeOK
    <3>2. CASE ~Listed
      BY <1>a, <1>6, <3>2 DEF PublishSegment, HlsTypeOK
    <3> QED BY <3>1, <3>2
  <2> QED BY <1>a, <1>6, <2>1, <2>4 DEF PublishSegment, HlsTypeOK, HandRecord
<1>7. CASE ReadNumber(h)
  <2>1. stream.next \in Numbers
    BY <1>a, NextNumber
  <2>2. hand' \in [Hands -> HandRecord]
    BY <1>b, <1>7, <2>1 DEF ReadNumber, HandRecord
  <2> QED BY <1>a, <1>0, <1>7, <2>2 DEF ReadNumber, HlsTypeOK
<1>8. CASE CreateFile(h)
  <2>1. hand[h].writer \in Open /\ hand[h].number \in Numbers
    BY <1>a, <1>b, <1>8 DEF CreateFile, Locks, HandRecord
  <2>2. hand' \in [Hands -> HandRecord]
    BY <1>b, <1>8 DEF CreateFile, LetGo
  <2>3. DOMAIN files' \subseteq Numbers /\ \A n \in DOMAIN files' : files'[n] \in Open
    BY <1>a, <1>8, <2>1 DEF CreateFile, HlsTypeOK
  <2>4. segment' \in [Open -> Numbers \cup {NoSegment}]
    BY <1>a, <1>8, <2>1 DEF CreateFile, HlsTypeOK
  <2> QED BY <1>a, <1>8, <2>2, <2>3, <2>4 DEF CreateFile, HlsTypeOK, HandRecord
<1> QED BY <1>1, <1>2, <1>3, <1>4, <1>5, <1>6, <1>7, <1>8 DEF HandStep

LEMMA StopTyped ==
    ASSUME Shape, StopHls \/ Finalized \/ RemoveEntry \/ RemoveWriter
    PROVE  HlsTypeOK'
<1>a. HlsTypeOK
  BY DEF Shape
<1>b. hand \in [Hands -> HandRecord] /\ Free \in HandRecord /\ registered \in {None} \cup Open
  BY <1>a, HandsTyped DEF Free, HandRecord, HlsTypeOK
<1> USE DEF HlsTypeOK, Advance, Updaters
<1>1. CASE StopHls
  <2>1. hand' \in [Hands -> HandRecord]
    BY <1>b, <1>1 DEF StopHls, HandRecord
  <2> QED BY <1>a, <1>1, <2>1 DEF StopHls, HandRecord
<1>2. CASE Finalized
  <2>1. hand' \in [Hands -> HandRecord]
    BY <1>b, <1>2 DEF Finalized, LetGo
  <2> QED BY <1>a, <1>2, <2>1 DEF Finalized, HandRecord
<1>3. CASE RemoveEntry
  <2>1. stream' \in [run : {None} \cup Open, segments : Seq(Numbers), next : Nat]
    BY <1>3, EmptySeq DEF RemoveEntry, NoStream
  <2> QED BY <1>a, <1>3, <2>1 DEF RemoveEntry
<1>4. CASE RemoveWriter
  BY <1>a, <1>4 DEF RemoveWriter
<1> QED BY <1>1, <1>2, <1>3, <1>4

(* What is copied is a listing.                                            *)
LEMMA CopyTyped ==
    ASSUME HlsTypeOK
    PROVE  /\ MediaSequence \in Nat
           /\ [run |-> stream.run, first |-> MediaSequence, segments |-> stream.segments] \in Listing
<1>1. stream.next \in Nat /\ Len(stream.segments) \in Nat
  BY LenProperties DEF HlsTypeOK
<1>2. MediaSequence \in Nat
  BY <1>1 DEF MediaSequence
<1> QED BY <1>2 DEF HlsTypeOK, Listing

LEMMA UpdateTyped ==
    ASSUME Shape, \/ \E u \in Updaters : UpdateStep(u)
                  \/ PlaylistTick
    PROVE  HlsTypeOK'
<1>a. HlsTypeOK
  BY DEF Shape
<1>b. NoPlaylist \in Listing
  BY EmptySeq DEF NoPlaylist, Listing
<1> USE DEF HlsTypeOK, Advance
<1>1. ASSUME NEW u \in Updaters, CopyStream(u) PROVE HlsTypeOK'
  <2>1. copy' \in [Updaters -> Listing]
    BY <1>a, <1>1, CopyTyped DEF CopyStream, Listing
  <2> QED BY <1>a, <1>1, <2>1 DEF CopyStream, Listing
<1>2. ASSUME NEW u \in Updaters, NothingToUpdate(u) PROVE HlsTypeOK'
  BY <1>a, <1>2 DEF NothingToUpdate
<1>3. ASSUME NEW u \in Updaters, WritePlaylist(u) \/ WriteFails(u) PROVE HlsTypeOK'
  <2>1. copy' \in [Updaters -> Listing] /\ playlist' \in Listing
    <3>1. copy \in [Updaters -> Listing] /\ playlist \in Listing
      BY <1>a DEF Listing
    <3>2. copy' = [copy EXCEPT ![u] = NoPlaylist] /\ playlist' \in {copy[u], playlist}
      BY <1>3 DEF WritePlaylist, WriteFails
    <3> QED BY <1>b, <3>1, <3>2
  <2> QED BY <1>a, <1>3, <2>1 DEF WritePlaylist, WriteFails, Listing
<1>4. CASE PlaylistTick
  BY <1>a, <1>4 DEF PlaylistTick, Updaters
<1> QED BY <1>1, <1>2, <1>3, <1>4 DEF UpdateStep

(* The oldest segments are cut off in front.                               *)
LEMMA DropCuts ==
    ASSUME HlsTypeOK, NEW k \in Nat, DropOldest(k)
    PROVE  /\ k \in 1..Len(stream.segments) /\ Len(stream.segments) \in Nat
           /\ stream'.segments \in Seq(Numbers)
           /\ Len(stream'.segments) = Len(stream.segments) - k
           /\ \A i \in 1..Len(stream'.segments) : stream'.segments[i] = stream.segments[k + i]
           /\ stream'.run = stream.run /\ stream'.next = stream.next
           /\ stream' \in [run : {None} \cup Open, segments : Seq(Numbers), next : Nat]
<1> DEFINE s == stream.segments
           l == Len(s)
<1>1. s \in Seq(Numbers) /\ l \in Nat /\ \A i \in 1..l : s[i] \in Numbers
  BY LenProperties, ElementOfSeq DEF HlsTypeOK
<1>2. k \in 1..l /\ stream' = [stream EXCEPT !.segments = SubSeq(s, k + 1, l)]
  BY DEF DropOldest
<1>3. stream'.segments = SubSeq(s, k + 1, l) /\ stream'.run = stream.run /\ stream'.next = stream.next
  BY <1>2 DEF HlsTypeOK
<1> HIDE DEF s, l
<1>4. k + 1 \in Int /\ l \in Int /\ \A i \in (k + 1)..l : s[i] \in Numbers
  BY <1>1, <1>2
<1>5. /\ SubSeq(s, k + 1, l) \in Seq(Numbers)
      /\ Len(SubSeq(s, k + 1, l)) = IF k + 1 <= l THEN l - (k + 1) + 1 ELSE 0
      /\ \A i \in 1..(l - (k + 1) + 1) : SubSeq(s, k + 1, l)[i] = s[(k + 1) + i - 1]
  BY <1>4, SubSeqProperties
<1>6. Len(SubSeq(s, k + 1, l)) = l - k /\ \A i \in 1..(l - k) : SubSeq(s, k + 1, l)[i] = s[k + i]
  <2>1. Len(SubSeq(s, k + 1, l)) = l - k
    BY <1>1, <1>2, <1>5
  <2>2. ASSUME NEW i \in 1..(l - k) PROVE SubSeq(s, k + 1, l)[i] = s[k + i]
    <3>1. i \in 1..(l - (k + 1) + 1) /\ (k + 1) + i - 1 = k + i
      BY <1>1, <1>2
    <3> QED BY <1>5, <3>1
  <2> QED BY <2>1, <2>2
<1>7. stream' \in [run : {None} \cup Open, segments : Seq(Numbers), next : Nat]
  BY <1>2, <1>5 DEF HlsTypeOK
<1> QED BY <1>1, <1>2, <1>3, <1>5, <1>6, <1>7 DEF s, l

LEMMA DropTyped ==
    ASSUME Shape, NEW k \in Nat, DropOldest(k)
    PROVE  HlsTypeOK'
<1>1. DOMAIN files' \subseteq DOMAIN files /\ \A n \in DOMAIN files' : files'[n] = files[n]
  BY DEF DropOldest
<1> QED BY <1>1, DropCuts DEF Shape, HlsTypeOK, DropOldest
-----------------------------------------------------------------------------
-----------------------------------------------------------------------------
(* Hands and locks.                                                        *)

(* What a hand does to itself and to the writer it is on.                  *)
LEMMA HandDoes ==
    ASSUME Shape, NEW h \in Hands, HandStep(h)
    PROVE  /\ \A g \in Hands \ {h} : hand'[g] = hand[g]
           /\ \A w \in Open : w # hand[h].writer => segment'[w] = segment[w]
           /\ hand[h].at # "idle" => hand[h].writer \in Open
           /\ ReceivePacket(h) =>
                /\ h \in Open /\ hand'[h].at = "lock" /\ hand'[h].writer = registered
                /\ segment' = segment /\ doing' = doing
           /\ LockWriter(h) =>
                /\ hand'[h].at = IF segment[hand[h].writer] # NoSegment THEN "flush" ELSE "new"
                /\ hand'[h].writer = hand[h].writer
                /\ segment' = segment /\ doing' = doing
           /\ AppendData(h) \/ NoNewSegment(h) =>
                /\ hand[h].at = "create" \/ h \in Open
                /\ hand'[h] = Free /\ segment' = segment /\ doing' = doing
           /\ FlushSegment(h) =>
                /\ hand'[h].at = "publish" /\ hand'[h].writer = hand[h].writer
                /\ hand'[h].number = segment[hand[h].writer]
                /\ segment'[hand[h].writer] = NoSegment /\ doing' = doing
           /\ FlushFails(h) =>
                /\ hand'[h] = Free
                /\ h = Stopper => doing' = [doing EXCEPT !["stop"] = "idle"]
                /\ h # Stopper => doing' = doing
           /\ PublishSegment(h) =>
                /\ hand'[h].at = "new" /\ hand'[h].writer = hand[h].writer
                /\ segment' = segment /\ doing' = doing
           /\ ReadNumber(h) =>
                /\ h \in Open /\ hand'[h].at = "create" /\ hand'[h].writer = hand[h].writer
                /\ hand'[h].number = stream.next
                /\ segment' = segment /\ doing' = doing
           /\ CreateFile(h) =>
                /\ hand'[h] = Free /\ doing' = doing
                /\ segment'[hand[h].writer] = hand[h].number
<1>a. HlsTypeOK /\ hand \in [Hands -> HandRecord]
  BY HandsTyped DEF Shape
<1>b. hand[h].at # "idle" => hand[h].writer \in Open
  BY <1>a DEF Shape, Locks, HandRecord
<1>c. h # Stopper => h \in Open
  BY NumbersAre
<1>d. segment \in [Open -> Numbers \cup {NoSegment}] /\ receivers \subseteq Open
  BY <1>a DEF HlsTypeOK
<1>0. /\ \A g \in Hands \ {h} : hand'[g] = hand[g]
      /\ \A w \in Open : w # hand[h].writer => segment'[w] = segment[w]
  BY <1>a, <1>d DEF HandStep, ReceivePacket, LockWriter, AppendData, NoNewSegment, FlushSegment, FlushFails,
       PublishSegment, ReadNumber, CreateFile, LetGo
<1>1. ASSUME ReceivePacket(h)
      PROVE  /\ h \in Open /\ hand'[h].at = "lock" /\ hand'[h].writer = registered
             /\ segment' = segment /\ doing' = doing
  BY <1>a, <1>d, <1>1 DEF ReceivePacket, HandRecord
<1>2. ASSUME LockWriter(h)
      PROVE  /\ hand'[h].at = IF segment[hand[h].writer] # NoSegment THEN "flush" ELSE "new"
             /\ hand'[h].writer = hand[h].writer
             /\ segment' = segment /\ doing' = doing
  BY <1>a, <1>2 DEF LockWriter, HandRecord
<1>3. ASSUME AppendData(h) \/ NoNewSegment(h)
      PROVE  /\ hand[h].at = "create" \/ h \in Open
             /\ hand'[h] = Free /\ segment' = segment /\ doing' = doing
  BY <1>a, <1>c, <1>3 DEF AppendData, NoNewSegment, LetGo
<1>4. ASSUME FlushSegment(h)
      PROVE  /\ hand'[h].at = "publish" /\ hand'[h].writer = hand[h].writer
             /\ hand'[h].number = segment[hand[h].writer]
             /\ segment'[hand[h].writer] = NoSegment /\ doing' = doing
  BY <1>a, <1>b, <1>d, <1>4 DEF FlushSegment, HandRecord
<1>5. ASSUME FlushFails(h)
      PROVE  /\ hand'[h] = Free
             /\ h = Stopper => doing' = [doing EXCEPT !["stop"] = "idle"]
             /\ h # Stopper => doing' = doing
  BY <1>a, <1>5 DEF FlushFails, LetGo
<1>6. ASSUME PublishSegment(h)
      PROVE  /\ hand'[h].at = "new" /\ hand'[h].writer = hand[h].writer
             /\ segment' = segment /\ doing' = doing
  BY <1>a, <1>6 DEF PublishSegment, HandRecord
<1>7. ASSUME ReadNumber(h)
      PROVE  /\ h \in Open /\ hand'[h].at = "create" /\ hand'[h].writer = hand[h].writer
             /\ hand'[h].number = stream.next
             /\ segment' = segment /\ doing' = doing
  BY <1>a, <1>c, <1>7 DEF ReadNumber, HandRecord
<1>8. ASSUME CreateFile(h)
      PROVE  /\ hand'[h] = Free /\ doing' = doing
             /\ segment'[hand[h].writer] = hand[h].number
  BY <1>a, <1>b, <1>d, <1>8 DEF CreateFile, LetGo
<1> QED BY <1>b, <1>0, <1>1, <1>2, <1>3, <1>4, <1>5, <1>6, <1>7, <1>8

LEMMA HandBusy ==
    ASSUME Shape, NEW h \in Hands, HandStep(h)
    PROVE  Busy'
<1>a. Busy /\ doing \in [Updaters -> {"idle", "writer", "bind", "read", "write", "finalize", "remove",
                                      "remove_writer"}]
  BY DEF Shape, HlsTypeOK
<1>b. UNCHANGED runs
  BY DEF HandStep, ReceivePacket, LockWriter, AppendData, FlushSegment, FlushFails, PublishSegment,
         ReadNumber, NoNewSegment, CreateFile
<1>c. Stopper \notin Open /\ Free.at = "idle"
  BY NumbersAre DEF Free
<1>1. CASE h # Stopper
  <2>1. hand'[Stopper] = hand[Stopper]
    BY <1>1, HandDoes, NumbersAre
  <2>2. doing' = doing
    BY <1>1, HandDoes DEF HandStep
  <2> QED BY <1>a, <1>b, <2>1, <2>2 DEF Busy
<1>2. CASE h = Stopper /\ FlushFails(h)
  <2>1. hand'[Stopper].at = "idle" /\ doing' = [doing EXCEPT !["stop"] = "idle"]
    BY <1>c, <1>2, HandDoes
  <2> QED BY <1>a, <1>b, <2>1 DEF Busy, Updaters
<1>3. CASE h = Stopper /\ ~FlushFails(h)
  <2>1. ~ReceivePacket(h) /\ ~AppendData(h) /\ ~ReadNumber(h)
    BY <1>c, <1>3, HandDoes DEF AppendData, ReadNumber
  <2>2. LockWriter(h) \/ FlushSegment(h) \/ PublishSegment(h)
    BY <1>a, <1>3, <2>1 DEF HandStep, Busy, NoNewSegment, CreateFile
  <2>3. doing' = doing /\ hand'[Stopper].at \in {"flush", "new", "publish"}
    BY <1>3, <2>2, HandDoes
  <2>4. hand[Stopper].at # "idle"
    BY <1>3, <2>2 DEF LockWriter, FlushSegment, PublishSegment
  <2> QED BY <1>a, <1>b, <2>3, <2>4 DEF Busy
<1> QED BY <1>1, <1>2, <1>3

LEMMA HandLocks ==
    ASSUME Shape, Bounded, NEW h \in Hands, HandStep(h)
    PROVE  Locks'
<1>a. Locks
  BY DEF Shape
<1>b. /\ \A g \in Hands \ {h} : hand'[g] = hand[g]
      /\ \A w \in Open : w # hand[h].writer => segment'[w] = segment[w]
      /\ \A g \in Hands : hand[g].at # "idle" => hand[g].writer \in Open
  <2>1. hand \in [Hands -> HandRecord]
    BY HandsTyped DEF Shape
  <2> QED BY <1>a, <2>1, HandDoes DEF Locks, HandRecord
<1>c. Free.at = "idle"
  BY DEF Free
<1>1. CASE ReceivePacket(h)
  <2>1. hand'[h].at = "lock" /\ hand'[h].writer # None /\ segment' = segment
    BY <1>1, HandDoes DEF ReceivePacket
  <2> QED BY <1>a, <1>b, <2>1 DEF Locks, Holding
<1>2. CASE LockWriter(h)
  <2>1. /\ hand'[h].at = IF segment[hand[h].writer] # NoSegment THEN "flush" ELSE "new"
        /\ hand'[h].writer = hand[h].writer /\ segment' = segment /\ hand[h].at = "lock"
    BY <1>2, HandDoes DEF LockWriter
  <2>2. \A g \in Hands : Holding(g) => hand[g].writer # hand[h].writer
    BY <1>2 DEF LockWriter, Locked, Holding
  <2>3. \A g, i \in Hands : g # i /\ Holding(g)' /\ Holding(i)' => hand'[g].writer # hand'[i].writer
    BY <1>a, <1>b, <2>1, <2>2 DEF Locks, Holding
  <2> QED BY <1>a, <1>b, <2>1, <2>3 DEF Locks
<1>3. CASE AppendData(h) \/ NoNewSegment(h)
  <2>1. hand'[h].at = "idle" /\ segment' = segment
    BY <1>c, <1>3, HandDoes
  <2> QED BY <1>a, <1>b, <2>1 DEF Locks, Holding
<1>4. CASE FlushSegment(h)
  <2>1. /\ hand'[h].at = "publish" /\ hand'[h].writer = hand[h].writer
        /\ hand'[h].number = segment[hand[h].writer] /\ hand[h].at = "flush"
        /\ segment'[hand[h].writer] = NoSegment
    BY <1>4, HandDoes DEF FlushSegment
  <2>2. \A g \in Hands \ {h} : Holding(g) => segment'[hand[g].writer] = segment[hand[g].writer]
    BY <1>a, <1>b, <2>1 DEF Locks, Holding
  <2> QED BY <1>a, <1>b, <2>1, <2>2 DEF Locks, Holding
<1>5. CASE FlushFails(h) \/ CreateFile(h)
  <2>1. hand'[h].at = "idle" /\ Holding(h)
    BY <1>c, <1>5, HandDoes DEF FlushFails, CreateFile, Holding
  <2>2. \A g \in Hands \ {h} : Holding(g) => segment'[hand[g].writer] = segment[hand[g].writer]
    BY <1>a, <1>b, <2>1 DEF Locks, Holding
  <2> QED BY <1>a, <1>b, <2>1, <2>2 DEF Locks, Holding
<1>6. CASE PublishSegment(h) \/ ReadNumber(h)
  <2>1. /\ hand[h].at \in {"publish", "new"} /\ hand'[h].at \in {"new", "create"}
        /\ hand'[h].writer = hand[h].writer /\ segment' = segment
    BY <1>6, HandDoes DEF PublishSegment, ReadNumber
  <2>2. hand'[h].at = "create" => hand'[h].number # NoSegment
    <3>1. stream.next # NoSegment
      BY NextNumber, NumbersAre DEF Shape
    <3> QED BY <1>6, <3>1, HandDoes
  <2> QED BY <1>a, <1>b, <2>1, <2>2 DEF Locks, Holding
<1> QED BY <1>1, <1>2, <1>3, <1>4, <1>5, <1>6 DEF HandStep
-----------------------------------------------------------------------------
-----------------------------------------------------------------------------
(* The other steps.                                                        *)

Others ==
    \/ InsertStream \/ InsertWriter \/ StartReceiver \/ BindFails
    \/ StopHls \/ Finalized \/ RemoveEntry \/ RemoveWriter
    \/ \E u \in Updaters : UpdateStep(u)
    \/ PlaylistTick
    \/ \E k \in 1..(MaxNumber + 3) : DropOldest(k)

DoingTyped == doing \in [Updaters -> {"idle", "writer", "bind", "read", "write", "finalize",
                                      "remove", "remove_writer"}]

LEMMA OthersBusy ==
    ASSUME Shape, Others
    PROVE  Busy'
<1>a. Busy /\ DoingTyped /\ hand \in [Hands -> HandRecord] /\ runs \in Nat /\ Stopper \in Hands
  BY HandsTyped, NumbersAre DEF Shape, HlsTypeOK, DoingTyped
<1> USE DEF Busy, DoingTyped, Advance, Updaters
<1>1. CASE InsertStream \/ InsertWriter \/ StartReceiver \/ BindFails
  BY <1>a, <1>1 DEF InsertStream, InsertWriter, StartReceiver, BindFails
<1>2. CASE StopHls
  BY <1>a, <1>2 DEF StopHls, HandRecord
<1>3. CASE Finalized
  BY <1>a, <1>3 DEF Finalized, LetGo, Free
<1>4. CASE RemoveEntry \/ RemoveWriter
  BY <1>a, <1>4 DEF RemoveEntry, RemoveWriter
<1>5. ASSUME NEW u \in Updaters, UpdateStep(u) PROVE Busy'
  BY <1>a, <1>5 DEF UpdateStep, CopyStream, NothingToUpdate, WritePlaylist, WriteFails
<1>6. CASE PlaylistTick
  BY <1>a, <1>6 DEF PlaylistTick
<1>7. ASSUME NEW k \in 1..(MaxNumber + 3), DropOldest(k) PROVE Busy'
  BY <1>a, <1>7 DEF DropOldest
<1> QED BY <1>1, <1>2, <1>3, <1>4, <1>5, <1>6, <1>7 DEF Others

(* None of them but stop_stream has a hand on a writer.                    *)
LEMMA OthersHands ==
    ASSUME Shape, Others
    PROVE  /\ segment' = segment
           /\ \A h \in Open : hand'[h] = hand[h]
           /\ \/ hand' = hand
              \/ /\ StopHls /\ hand[Stopper].at = "idle" /\ registered # None
                 /\ hand'[Stopper].at = "lock" /\ hand'[Stopper].writer = registered
              \/ Finalized /\ hand'[Stopper] = Free /\ hand[Stopper].at = "new"
<1>a. hand \in [Hands -> HandRecord] /\ Busy /\ Stopper \in Hands /\ Stopper \notin Open /\ Open \subseteq Hands
  BY HandsTyped, NumbersAre DEF Shape
<1>1. segment' = segment
  BY DEF Others, InsertStream, InsertWriter, StartReceiver, BindFails, StopHls, Finalized, RemoveEntry,
         RemoveWriter, UpdateStep, CopyStream, NothingToUpdate, WritePlaylist, WriteFails, PlaylistTick,
         DropOldest
<1>2. CASE StopHls
  <2>1. hand[Stopper].at = "idle"
    BY <1>a, <1>2 DEF StopHls, Busy, Advance
  <2> QED BY <1>a, <1>1, <1>2, <2>1 DEF StopHls, HandRecord
<1>3. CASE Finalized
  BY <1>a, <1>1, <1>3 DEF Finalized, LetGo
<1>4. CASE ~StopHls /\ ~Finalized
  <2>1. hand' = hand
    BY <1>4 DEF Others, InsertStream, InsertWriter, StartReceiver, BindFails, RemoveEntry,
         RemoveWriter, UpdateStep, CopyStream, NothingToUpdate, WritePlaylist, WriteFails, PlaylistTick,
         DropOldest
  <2> QED BY <1>1, <2>1
<1> QED BY <1>2, <1>3, <1>4

LEMMA OthersLocks ==
    ASSUME Shape, Others
    PROVE  Locks'
<1>a. Locks /\ hand \in [Hands -> HandRecord] /\ \A h \in Hands : h # Stopper => hand'[h] = hand[h]
  BY HandsTyped, OthersHands, NumbersAre DEF Shape
<1>1. CASE hand' = hand
  BY <1>a, <1>1, OthersHands DEF Locks, Holding
<1>2. CASE hand' # hand
  <2>1. /\ segment' = segment /\ hand'[Stopper].at \in {"lock", "idle"}
        /\ hand'[Stopper].at # "idle" => hand'[Stopper].writer # None
    BY <1>2, OthersHands DEF Free
  <2> QED BY <1>a, <2>1 DEF Locks, Holding
<1> QED BY <1>1, <1>2

LEMMA OthersTyped ==
    ASSUME Shape, Others
    PROVE  HlsTypeOK'
<1>1. ASSUME NEW k \in 1..(MaxNumber + 3), DropOldest(k) PROVE HlsTypeOK'
  <2>1. k \in Nat
    BY HlsAssumption
  <2> QED BY <1>1, <2>1, DropTyped
<1> QED BY <1>1, StartsTyped, StopTyped, UpdateTyped DEF Others

LEMMA ShapeStep ==
    ASSUME Shape, Bounded, [HlsNext]_hlsVars
    PROVE  Shape'
<1>1. CASE UNCHANGED hlsVars
  BY <1>1 DEF Shape, HlsTypeOK, Busy, Locks, Holding, hlsVars
<1>2. ASSUME NEW h \in Hands, HandStep(h) PROVE Shape'
  BY <1>2, HandTyped, HandBusy, HandLocks DEF Shape
<1>3. CASE Others
  BY <1>3, OthersTyped, OthersBusy, OthersLocks DEF Shape
<1> QED BY <1>1, <1>2, <1>3 DEF HlsNext, Others
-----------------------------------------------------------------------------
(* Who is at work on what.                                                 *)

(* A hand stays on its writer, lets go of it, or takes the registered one. *)
LEMMA HandStays ==
    ASSUME Shape, NEW h \in Hands, HandStep(h)
    PROVE  \/ hand'[h].at = "idle"
           \/ hand[h].at # "idle" /\ hand'[h].writer = hand[h].writer
           \/ hand'[h].writer = registered /\ registered # None /\ ~overlapped
<1>1. CASE ReceivePacket(h)
  BY <1>1, HandDoes DEF ReceivePacket
<1>2. CASE AppendData(h) \/ NoNewSegment(h) \/ FlushFails(h) \/ CreateFile(h)
  BY <1>2, HandDoes DEF Free
<1>3. CASE LockWriter(h) \/ FlushSegment(h) \/ PublishSegment(h) \/ ReadNumber(h)
  <2>1. hand[h].at # "idle"
    BY <1>3 DEF LockWriter, FlushSegment, PublishSegment, ReadNumber
  <2> QED BY <1>3, <2>1, HandDoes
<1> QED BY <1>1, <1>2, <1>3 DEF HandStep

LEMMA TidyHand ==
    ASSUME Shape, Tidy, NEW h \in Hands, HandStep(h)
    PROVE  Tidy'
<1> SUFFICES ASSUME ~overlapped'
             PROVE  /\ registered' # None => \A g \in Hands : hand'[g].at # "idle" => hand'[g].writer = registered'
                    /\ registered' # None => Listed' \/ doing'["stop"] = "remove_writer"
                    /\ doing'["start"] # "idle" => doing'["stop"] = "idle"
                    /\ doing'["start"] = "writer" =>
                         registered' = None /\ Listed' /\ \A g \in Hands : hand'[g].at = "idle"
  BY DEF Tidy
<1>1. UNCHANGED <<registered, overlapped>> /\ stream'.run = stream.run
  BY DEF Shape, HlsTypeOK, HandStep, ReceivePacket, LockWriter, AppendData, FlushSegment, FlushFails,
         PublishSegment, ReadNumber, NoNewSegment, CreateFile
<1>2. \A g \in Hands \ {h} : hand'[g] = hand[g]
  BY HandDoes
<1>3. \/ hand'[h].at = "idle"
      \/ hand[h].at # "idle" /\ hand'[h].writer = hand[h].writer
      \/ hand'[h].writer = registered /\ registered # None
  BY HandStays
<1>4. doing' = doing \/ (doing["stop"] = "finalize" /\ doing' = [doing EXCEPT !["stop"] = "idle"])
  <2>1. CASE FlushFails(h) /\ h = Stopper
    BY <2>1, HandDoes DEF Shape, Busy, FlushFails
  <2>2. CASE ~(FlushFails(h) /\ h = Stopper)
    BY <2>2, HandDoes DEF HandStep
  <2> QED BY <2>1, <2>2
<1>5. doing \in [Updaters -> {"idle", "writer", "bind", "read", "write", "finalize", "remove",
                               "remove_writer"}]
  BY DEF Shape, HlsTypeOK
<1> QED BY <1>1, <1>2, <1>3, <1>4, <1>5 DEF Tidy, Listed, Updaters

LEMMA TidyOthers ==
    ASSUME Shape, Tidy, Others
    PROVE  Tidy'
<1>a. HlsTypeOK /\ DoingTyped /\ hand \in [Hands -> HandRecord] /\ Busy /\ runs \in Nat
  BY HandsTyped DEF Shape, HlsTypeOK, DoingTyped
<1>b. \A h \in Hands : h # Stopper => hand'[h] = hand[h]
  BY OthersHands, NumbersAre
<1> USE DEF Tidy, DoingTyped, Advance, Updaters, Listed
<1>1. CASE InsertStream
  <2>1. ~overlapped' => /\ ~overlapped /\ stream.run = None /\ doing["stop"] = "idle"
                        /\ \A h \in Hands : hand[h].at = "idle"
    BY <1>1 DEF InsertStream
  <2>2. stream'.run # None
    BY <1>a, <1>1 DEF InsertStream, NoStream, None
  <2>3. UNCHANGED <<registered, hand>> /\ doing' = [doing EXCEPT !["start"] = "writer"]
    BY <1>1 DEF InsertStream
  <2> QED BY <1>a, <2>1, <2>2, <2>3
<1>2. CASE InsertWriter
  <2>1. /\ UNCHANGED <<stream, hand, overlapped>> /\ doing["start"] = "writer"
        /\ doing' = [doing EXCEPT !["start"] = "bind"]
    BY <1>2 DEF InsertWriter
  <2>2. ~overlapped => Listed /\ doing["stop"] = "idle" /\ \A h \in Hands : hand[h].at = "idle"
    BY <2>1
  <2> QED BY <1>a, <2>1, <2>2
<1>3. CASE StartReceiver \/ BindFails
  BY <1>a, <1>3 DEF StartReceiver, BindFails
<1>4. CASE StopHls
  <2>1. ~overlapped' => ~overlapped /\ doing["start"] = "idle"
    BY <1>4 DEF StopHls
  <2>2. UNCHANGED <<registered, stream>> /\ doing["stop"] = "idle" /\ doing'["start"] = doing["start"]
    BY <1>a, <1>4 DEF StopHls
  <2>3. hand' = hand \/ hand'[Stopper].writer = registered
    <3>1. CASE registered = None
      BY <1>4, <3>1 DEF StopHls
    <3>2. CASE registered # None
      BY <1>a, <1>4, <3>2, NumbersAre DEF StopHls, HandRecord
    <3> QED BY <3>1, <3>2
  <2> QED BY <1>b, <2>1, <2>2, <2>3
<1>5. CASE Finalized
  <2>1. UNCHANGED <<registered, stream, overlapped>> /\ doing["stop"] = "finalize"
        /\ doing' = [doing EXCEPT !["stop"] = "remove"]
    BY <1>5 DEF Finalized
  <2>2. hand'[Stopper].at = "idle"
    BY <1>a, <1>5, NumbersAre DEF Finalized, LetGo, Free
  <2> QED BY <1>a, <1>b, <2>1, <2>2
<1>6. CASE RemoveEntry \/ RemoveWriter
  BY <1>a, <1>6 DEF RemoveEntry, RemoveWriter
<1>7. ASSUME NEW u \in Updaters, UpdateStep(u) PROVE Tidy'
  <2>1. /\ UNCHANGED <<registered, hand, stream, overlapped>>
        /\ doing[u] \in {"read", "write"} /\ doing' \in {[doing EXCEPT ![u] = "idle"], [doing EXCEPT ![u] = "write"]}
    BY <1>7 DEF UpdateStep, CopyStream, NothingToUpdate, WritePlaylist, WriteFails
  <2> QED BY <1>a, <2>1
<1>8. CASE PlaylistTick
  BY <1>a, <1>8 DEF PlaylistTick
<1>9. ASSUME NEW k \in 1..(MaxNumber + 3), DropOldest(k) PROVE Tidy'
  BY <1>a, <1>9 DEF DropOldest, HlsTypeOK
<1> QED BY <1>1, <1>2, <1>3, <1>4, <1>5, <1>6, <1>7, <1>8, <1>9 DEF Others

LEMMA AlikeStep ==
    ASSUME Shape, Tidy, Alike, [HlsNext]_hlsVars
    PROVE  Alike'
<1>1. CASE UNCHANGED hlsVars
  BY <1>1 DEF Alike, hlsVars
<1>2. ASSUME NEW h \in Hands, HandStep(h) PROVE Alike'
  <2>1. \A g \in Hands \ {h} : hand'[g] = hand[g]
    BY <1>2, HandDoes
  <2>2. \/ hand'[h].at = "idle"
        \/ hand[h].at # "idle" /\ hand'[h].writer = hand[h].writer
        \/ hand'[h].writer = registered /\ registered # None /\ ~overlapped
    BY <1>2, HandStays
  <2> QED BY <2>1, <2>2, NumbersAre DEF Alike, Tidy
<1>3. CASE Others
  BY <1>3, OthersHands DEF Alike
<1> QED BY <1>1, <1>2, <1>3 DEF HlsNext, Others
-----------------------------------------------------------------------------
(* The numbers.                                                            *)

LEMMA BoundedHand ==
    ASSUME Shape, Alike, Bounded, NEW h \in Hands, HandStep(h)
    PROVE  Bounded'
<1>a. stream.next \in Nat /\ MaxNumber \in Nat /\ Busy
  BY HlsAssumption DEF Shape, HlsTypeOK
<1>b. \A g \in Hands \ {h} : hand'[g] = hand[g]
  BY HandDoes
(* One receiver publishes at a time.                                       *)
<1>c. \A g, i \in Open : hand[g].at = "publish" /\ Holding(i) => g = i
  BY NumbersAre DEF Shape, Locks, Holding, Alike
<1>1. CASE FlushSegment(h)
  <2>1. hand[h].at = "flush" /\ hand'[h].at = "publish" /\ UNCHANGED stream /\ doing' = doing
    BY <1>1, HandDoes DEF FlushSegment
  <2>2. CASE h = Stopper
    <3>1. \A g \in Open : hand'[g] = hand[g]
      BY <1>b, <2>2, NumbersAre
    <3>2. Putting' = Putting /\ (LastPublished => LastPublished')
      BY <2>1, <2>2, <3>1 DEF Putting, LastPublished, Shape, Busy
    <3>3. Putting' <=> Putting
      BY <3>1 DEF Putting
    <3> QED BY <1>a, <2>1, <3>2, <3>3 DEF Bounded
  <2>3. CASE h # Stopper
    <3>1. h \in Open /\ stream.next < MaxNumber
      BY <1>1, <2>3, NumbersAre DEF FlushSegment
    <3>2. stream'.next + 1 <= MaxNumber /\ MaxNumber # 0
      BY <1>a, <2>1, <3>1
    <3> QED BY <1>a, <2>1, <3>2 DEF Bounded
  <2> QED BY <2>2, <2>3
<1>2. CASE PublishSegment(h)
  <2>1. /\ hand[h].at = "publish" /\ hand'[h].at = "new" /\ doing' = doing
        /\ stream'.next \in {stream.next, stream.next + 1}
    BY <1>2, HandDoes DEF PublishSegment, Shape, HlsTypeOK
  <2>2. CASE h = Stopper
    <3>1. \A g \in Open : hand'[g] = hand[g]
      BY <1>b, <2>2, NumbersAre
    <3>2. Putting' <=> Putting
      BY <3>1 DEF Putting
    <3>3. LastPublished' /\ ~LastPublished
      BY <1>a, <2>1, <2>2 DEF LastPublished, Busy
    <3> QED BY <1>a, <2>1, <3>2, <3>3 DEF Bounded
  <2>3. CASE h # Stopper
    <3>1. h \in Open /\ hand'[Stopper] = hand[Stopper]
      BY <1>b, <2>3, NumbersAre
    <3>2. Putting /\ ~Putting'
      <4>1. \A g \in Open \ {h} : hand'[g].at # "publish"
        BY <1>b, <1>c, <2>1, <3>1, NumbersAre DEF Holding
      <4> QED BY <2>1, <3>1, <4>1 DEF Putting
    <3>3. LastPublished' <=> LastPublished
      BY <2>1, <3>1 DEF LastPublished
    <3> QED BY <1>a, <2>1, <3>2, <3>3 DEF Bounded
  <2> QED BY <2>2, <2>3
<1>3. CASE ~FlushSegment(h) /\ ~PublishSegment(h)
  <2>1. UNCHANGED stream /\ hand'[h].at # "publish" /\ hand[h].at # "publish"
    BY <1>3, HandDoes DEF HandStep, Free, ReceivePacket, LockWriter, AppendData, FlushFails, ReadNumber,
         NoNewSegment, CreateFile
  <2>2. Putting' <=> Putting
    BY <1>b, <2>1, NumbersAre DEF Putting
  <2>3. LastPublished => LastPublished'
    <3>1. hand[Stopper].at = "new" => hand'[Stopper] = hand[Stopper]
      <4>1. hand[h].at = "new" => h \in Open
        BY <1>3, HandDoes DEF HandStep, Free, ReceivePacket, LockWriter, AppendData, FlushFails, ReadNumber,
           NoNewSegment, CreateFile
      <4> QED BY <1>b, <4>1, NumbersAre
    <3>2. doing["stop"] = "remove" => doing' = doing
      <4>1. doing["stop"] = "remove" => hand[Stopper].at = "idle"
        BY <1>a DEF Busy
      <4>2. FlushFails(h) => hand[h].at # "idle"
        BY DEF FlushFails
      <4> QED BY <1>3, <4>1, <4>2, HandDoes DEF HandStep
    <3> QED BY <3>1, <3>2 DEF LastPublished
  <2> QED BY <1>a, <2>1, <2>2, <2>3 DEF Bounded
<1> QED BY <1>1, <1>2, <1>3

LEMMA BoundedOthers ==
    ASSUME Shape, Bounded, Others
    PROVE  Bounded'
<1>a. stream.next \in Nat /\ MaxNumber \in Nat /\ Busy /\ DoingTyped
  BY HlsAssumption DEF Shape, HlsTypeOK, DoingTyped
<1>b. Putting' <=> Putting
  BY OthersHands DEF Putting
<1>1. CASE InsertStream \/ RemoveEntry
  <2>1. stream'.next = 0
    BY <1>1 DEF InsertStream, RemoveEntry, NoStream
  <2> QED BY <1>a, <1>b, <2>1 DEF Bounded
<1>2. CASE ~InsertStream /\ ~RemoveEntry
  <2>1. stream'.next = stream.next
    BY <1>2 DEF Others, InsertWriter, StartReceiver, BindFails, StopHls, Finalized, RemoveWriter,
         UpdateStep, CopyStream, NothingToUpdate, WritePlaylist, WriteFails, PlaylistTick, DropOldest,
         Shape, HlsTypeOK
  <2>2. LastPublished => LastPublished'
    <3>1. doing["stop"] = "remove" => doing'["stop"] = "remove"
      BY <1>a, <1>2 DEF Others, InsertWriter, StartReceiver, BindFails, StopHls, Finalized, RemoveWriter,
           UpdateStep, CopyStream, NothingToUpdate, WritePlaylist, WriteFails, PlaylistTick, DropOldest,
           Advance, DoingTyped, Updaters
    <3>2. Finalized => doing'["stop"] = "remove"
      BY <1>a DEF Finalized, Advance, DoingTyped, Updaters
    <3>3. hand[Stopper].at = "new" => hand'[Stopper].at = "new" \/ Finalized
      BY OthersHands
    <3> QED BY <3>1, <3>2, <3>3 DEF LastPublished
  <2> QED BY <1>a, <1>b, <2>1, <2>2 DEF Bounded
<1> QED BY <1>1, <1>2
-----------------------------------------------------------------------------

LEMMA HlsAtFirst == HlsInit => HlsInv
<1> SUFFICES ASSUME HlsInit PROVE HlsInv
  OBVIOUS
<1>a. Stopper \in Hands /\ Free \in HandRecord /\ Free.at = "idle" /\ NoPlaylist \in Listing
  BY EmptySeq, NumbersAre DEF Free, HandRecord, NoPlaylist, Listing
<1>1. /\ stream \in [run : {None} \cup Open, segments : Seq(Numbers), next : Nat]
      /\ playlist \in Listing /\ copy \in [Updaters -> Listing]
      /\ hand \in [Hands -> HandRecord] /\ segment \in [Open -> Numbers \cup {NoSegment}]
  BY <1>a, EmptySeq DEF HlsInit, NoStream
<1>2. HlsTypeOK
  <2>1. /\ registered \in {None} \cup Open /\ receivers \subseteq Open /\ runs \in 0..MaxRuns
        /\ DOMAIN files \subseteq Numbers /\ \A n \in DOMAIN files : files[n] \in Open
        /\ tasks \in BOOLEAN /\ overlapped \in BOOLEAN
    <3>1. DOMAIN files = {}
      BY DEF HlsInit
    <3>2. registered = None /\ receivers = {} /\ runs = 0 /\ tasks \in BOOLEAN /\ overlapped = FALSE
      BY DEF HlsInit
    <3>3. 0 \in 0..MaxRuns
      BY HlsAssumption
    <3> QED BY <3>1, <3>2, <3>3
  <2>2. doing \in [Updaters -> {"idle", "writer", "bind", "read", "write", "finalize", "remove",
                                "remove_writer"}]
    BY DEF HlsInit
  <2> QED BY <1>1, <2>1, <2>2 DEF HlsTypeOK, Listing, HandRecord
<1>3. Busy /\ Locks
  BY <1>a DEF HlsInit, Busy, Locks, Holding, Updaters
<1>4. Tidy /\ Alike
  BY <1>a, NumbersAre DEF HlsInit, Tidy, Alike, Updaters
<1>5. Bounded
  <2>1. stream.next = 0 /\ ~Putting
    BY <1>a, NumbersAre DEF HlsInit, NoStream, Putting
  <2> QED BY <2>1, HlsAssumption DEF Bounded
<1> QED BY <1>2, <1>3, <1>4, <1>5 DEF HlsInv, Shape

LEMMA HlsStep == HlsInv /\ [HlsNext]_hlsVars => HlsInv'
<1> SUFFICES ASSUME HlsInv, [HlsNext]_hlsVars PROVE HlsInv'
  OBVIOUS
<1>1. Shape' /\ Alike'
  BY ShapeStep, AlikeStep DEF HlsInv
<1>2. CASE UNCHANGED hlsVars
  BY <1>1, <1>2 DEF HlsInv, Tidy, Bounded, Putting, LastPublished, Listed, hlsVars
<1>3. ASSUME NEW h \in Hands, HandStep(h) PROVE HlsInv'
  BY <1>1, <1>3, TidyHand, BoundedHand DEF HlsInv
<1>4. CASE Others
  BY <1>1, <1>4, TidyOthers, BoundedOthers DEF HlsInv
<1> QED BY <1>2, <1>3, <1>4 DEF HlsNext, Others

(* Segments keep numbers within the bounds, a writer in use is always      *)
(* one of a run that was started, and the steps find what they expect.     *)
THEOREM HlsTypeCorrect == HlsSpec => []HlsTypeOK
<1>1. HlsInv => HlsTypeOK
  BY DEF HlsInv, Shape
<1> QED BY <1>1, HlsAtFirst, HlsStep, PTL DEF HlsSpec
-----------------------------------------------------------------------------
(* What is listed.                                                         *)

Counts(l) == \A i \in DOMAIN l.segments : l.segments[i] = l.first + i - 1

Made(n) == n \in DOMAIN files /\ files[n] = stream.run

(* The entry's segments are the last of the run, in order.                 *)
EntryInOrder ==
    /\ Len(stream.segments) <= stream.next
    /\ \A i \in 1..Len(stream.segments) :
         stream.segments[i] = stream.next - Len(stream.segments) + i - 1

EntryOnDisk == \A i \in 1..Len(stream.segments) : Made(stream.segments[i])

(* Everybody at work is on the writer of the stream's own run.             *)
WritersOwn ==
    /\ registered # None => registered = stream.run
    /\ \A h \in Hands : hand[h].at # "idle" => hand[h].writer = stream.run

(* The segment after the last listed is the one being written.             *)
OpenIsNext ==
    /\ segment[stream.run] # NoSegment => segment[stream.run] = stream.next /\ Made(stream.next)
    /\ \A h \in Hands : hand[h].at = "publish" => hand[h].number = stream.next /\ Made(stream.next)
    /\ \A h \in Hands : hand[h].at = "create" => hand[h].number = stream.next

Numbered ==
    ~overlapped =>
        /\ Listed => EntryInOrder /\ EntryOnDisk /\ WritersOwn /\ OpenIsNext
        /\ doing["start"] = "writer" => stream.run = runs

(* Runs that were not started have left nothing.                           *)
Fresh ==
    /\ \A r \in Open : r > runs => segment[r] = NoSegment
    /\ stream.run <= runs /\ registered <= runs
    /\ \A h \in Hands : hand[h].writer <= runs
    /\ ~Listed => stream.segments = <<>>

CopiesCount == ~overlapped => Counts(playlist) /\ \A u \in Updaters : Counts(copy[u])

LEMMA FreshStep == HlsInv /\ Fresh /\ [HlsNext]_hlsVars => Fresh'
<1> SUFFICES ASSUME HlsInv, Fresh, [HlsNext]_hlsVars PROVE Fresh'
  OBVIOUS
<1>a. HlsTypeOK /\ Shape /\ runs \in Nat /\ hand \in [Hands -> HandRecord] /\ Open \subseteq Nat
  BY HandsTyped DEF HlsInv, Shape, HlsTypeOK, Open
<1>1. CASE UNCHANGED hlsVars
  BY <1>1 DEF Fresh, Listed, hlsVars
<1>2. ASSUME NEW h \in Hands, HandStep(h) PROVE Fresh'
  <2>1. UNCHANGED <<runs, registered>> /\ stream'.run = stream.run /\ (~Listed => stream' = stream)
    BY <1>a, <1>2 DEF HlsTypeOK, HandStep, ReceivePacket, LockWriter, AppendData, FlushSegment, FlushFails,
         PublishSegment, ReadNumber, NoNewSegment, CreateFile
  <2>2. hand'[h].writer <= runs
    <3>1. CASE AppendData(h) \/ NoNewSegment(h) \/ FlushFails(h) \/ CreateFile(h)
      <4>1. hand'[h] = Free
        BY <1>a, <1>2, <3>1, HandDoes
      <4> QED BY <1>a, <4>1 DEF Free, None
    <3>2. CASE LockWriter(h) \/ FlushSegment(h) \/ PublishSegment(h) \/ ReadNumber(h)
      <4>1. hand'[h].writer = hand[h].writer
        BY <1>a, <1>2, <3>2, HandDoes
      <4> QED BY <4>1 DEF Fresh
    <3>3. CASE ReceivePacket(h)
      <4>1. hand'[h].writer = registered
        BY <1>a, <1>2, <3>3, HandDoes
      <4> QED BY <4>1 DEF Fresh
    <3> QED BY <1>2, <3>1, <3>2, <3>3 DEF HandStep
  <2>3. \A r \in Open : r > runs => segment'[r] = segment[r]
    <3>1. hand[h].at # "idle" => hand[h].writer \in Open /\ hand[h].writer <= runs
      BY <1>a, <1>2, HandDoes DEF Fresh
    <3>2. hand[h].at = "idle" => segment' = segment
      BY <1>2 DEF HandStep, ReceivePacket, LockWriter, AppendData, FlushSegment, FlushFails, PublishSegment,
                  ReadNumber, NoNewSegment, CreateFile
    <3> QED BY <1>a, <1>2, <3>1, <3>2, HandDoes
  <2>4. \A g \in Hands \ {h} : hand'[g] = hand[g]
    BY <1>a, <1>2, HandDoes
  <2> QED BY <2>1, <2>2, <2>3, <2>4 DEF Fresh, Listed
<1>3. CASE Others
  <2>1. segment' = segment /\ \A h \in Open : hand'[h] = hand[h]
    BY <1>a, <1>3, OthersHands
  <2>2. hand'[Stopper].writer \in {hand[Stopper].writer, registered, None}
    BY <1>a, <1>3, OthersHands DEF Free
  <2>3. CASE InsertStream
    <3>1. /\ runs' = runs + 1 /\ stream'.run = runs + 1 /\ stream'.segments = <<>>
          /\ UNCHANGED <<registered, hand>>
      BY <2>3 DEF InsertStream, NoStream
    <3>2. registered \in Nat /\ \A h \in Hands : hand[h].writer \in Nat
      BY <1>a DEF HlsTypeOK, HandRecord, Open, None
    <3> QED BY <1>a, <2>1, <3>1, <3>2 DEF Fresh
  <2>4. CASE ~InsertStream
    <3>1. UNCHANGED runs /\ registered' \in {registered, runs, None}
      BY <1>3, <2>4 DEF Others, InsertWriter, StartReceiver, BindFails, StopHls, Finalized, RemoveEntry,
         RemoveWriter, UpdateStep, CopyStream, NothingToUpdate, WritePlaylist, WriteFails, PlaylistTick, DropOldest
    <3>2. stream' = stream \/ stream' = NoStream \/ (Listed /\ stream'.run = stream.run)
      <4>1. ASSUME NEW k \in 1..(MaxNumber + 3), DropOldest(k) PROVE Listed /\ stream'.run = stream.run
        <5>1. stream.segments # <<>>
          BY <4>1, EmptySeq DEF DropOldest
        <5> QED BY <1>a, <4>1, <5>1 DEF DropOldest, HlsTypeOK, Fresh
      <4> QED BY <1>3, <2>4, <4>1 DEF Others, InsertWriter, StartReceiver, BindFails, StopHls, Finalized,
         RemoveEntry, RemoveWriter, UpdateStep, CopyStream, NothingToUpdate, WritePlaylist, WriteFails, PlaylistTick
    <3>3. NoStream.run = 0 /\ NoStream.segments = <<>> /\ None = 0
      BY DEF NoStream, None
    <3>4. \A h \in Hands : hand'[h].writer <= runs
      BY <1>a, <2>1, <2>2, <3>3, NumbersAre DEF Fresh
    <3> QED BY <1>a, <2>1, <3>1, <3>2, <3>3, <3>4 DEF Fresh, Listed
  <2> QED BY <2>3, <2>4
<1> QED BY <1>1, <1>2, <1>3 DEF HlsNext, Others

LEMMA NumberedHand ==
    ASSUME HlsInv, Numbered, NEW h \in Hands, HandStep(h)
    PROVE  Numbered'
<1>a. Shape /\ HlsTypeOK /\ Locks /\ hand \in [Hands -> HandRecord]
  BY HandsTyped DEF HlsInv, Shape
<1>b. UNCHANGED <<runs, registered, overlapped>> /\ stream'.run = stream.run
  BY <1>a DEF HlsTypeOK, HandStep, ReceivePacket, LockWriter, AppendData, FlushSegment, FlushFails,
         PublishSegment, ReadNumber, NoNewSegment, CreateFile
<1>c. doing'["start"] = doing["start"]
  BY <1>a, HandDoes DEF HandStep, HlsTypeOK, Updaters
<1>d. \A g \in Hands \ {h} : hand'[g] = hand[g]
  BY <1>a, HandDoes
<1> SUFFICES ASSUME ~overlapped, Listed
             PROVE  EntryInOrder' /\ EntryOnDisk' /\ WritersOwn' /\ OpenIsNext'
  BY <1>b, <1>c DEF Numbered, Listed
<1> DEFINE w == stream.run
<1>e. EntryInOrder /\ EntryOnDisk /\ WritersOwn /\ OpenIsNext
  BY DEF Numbered
<1>f. w \in Open /\ segment \in [Open -> Numbers \cup {NoSegment}] /\ stream.next \in Nat
      /\ stream.segments \in Seq(Numbers) /\ Len(stream.segments) \in Nat
  BY <1>a, LenProperties DEF HlsTypeOK, Listed
<1>g. hand[h].at # "idle" => hand[h].writer = w
  BY <1>e DEF WritersOwn
(* Nobody else holds the lock.                                             *)
<1>h. Holding(h) => \A g \in Hands \ {h} : hand[g].at \notin {"publish", "create"}
  BY <1>a, <1>e DEF Locks, Holding, WritersOwn
<1>i. WritersOwn'
  <2>1. hand'[h].at # "idle" => hand'[h].writer = w
    BY <1>a, <1>e, <1>g, HandStays DEF WritersOwn
  <2> QED BY <1>b, <1>d, <1>e, <2>1 DEF WritersOwn
<1>1. CASE ReceivePacket(h) \/ LockWriter(h) \/ AppendData(h) \/ NoNewSegment(h)
  <2>1. UNCHANGED <<stream, files, segment>> /\ hand'[h].at \notin {"publish", "create"}
    BY <1>a, <1>1, HandDoes DEF ReceivePacket, LockWriter, AppendData, NoNewSegment, Free
  <2> QED BY <1>d, <1>e, <1>i, <2>1 DEF EntryInOrder, EntryOnDisk, OpenIsNext, Made
<1>2. CASE FlushSegment(h)
  <2>0. hand[h].at = "flush" /\ hand[h].writer = w
    BY <1>2, <1>g DEF FlushSegment
  <2>1. /\ UNCHANGED <<stream, files>> /\ hand'[h].at = "publish"
        /\ hand'[h].number = segment[w] /\ segment'[w] = NoSegment
    BY <1>a, <1>2, <2>0, HandDoes DEF FlushSegment
  <2>2. segment[w] # NoSegment
    BY <1>a, <2>0 DEF Locks
  <2> QED BY <1>d, <1>e, <1>i, <2>1, <2>2 DEF EntryInOrder, EntryOnDisk, OpenIsNext, Made
<1>3. CASE FlushFails(h)
  <2>0. hand[h].writer = w
    BY <1>3, <1>g DEF FlushFails
  <2>1. /\ UNCHANGED <<stream, files>> /\ hand'[h].at = "idle" /\ segment'[w] = NoSegment
    <3>1. hand'[h] = Free
      BY <1>a, <1>3, HandDoes
    <3>2. UNCHANGED <<stream, files>> /\ segment' = [segment EXCEPT ![w] = NoSegment]
      BY <1>3, <2>0 DEF FlushFails
    <3> QED BY <1>f, <3>1, <3>2 DEF Free
  <2> QED BY <1>d, <1>e, <1>i, <2>1 DEF EntryInOrder, EntryOnDisk, OpenIsNext, Made
<1>4. CASE PublishSegment(h)
  <2>0. hand[h].at = "publish" /\ hand[h].writer = w
    BY <1>4, <1>g DEF PublishSegment
  <2>1. /\ UNCHANGED <<files, segment>> /\ hand[h].at = "publish" /\ hand'[h].at = "new"
        /\ segment[w] = NoSegment /\ hand[h].number = stream.next /\ Made(stream.next)
    <3>1. UNCHANGED <<files, segment>> /\ hand'[h].at = "new"
      BY <1>a, <1>4, HandDoes DEF PublishSegment
    <3> QED BY <1>a, <1>e, <2>0, <3>1 DEF Locks, OpenIsNext
  <2>2. stream'.segments = Append(stream.segments, stream.next) /\ stream'.next = stream.next + 1
    BY <1>a, <1>4, <2>1 DEF PublishSegment, HlsTypeOK
  <2>3. stream.next \in Numbers
    BY <1>a, NextNumber DEF HlsInv
  <2>4. /\ Len(stream'.segments) = Len(stream.segments) + 1
        /\ \A i \in 1..Len(stream.segments) : stream'.segments[i] = stream.segments[i]
        /\ stream'.segments[Len(stream.segments) + 1] = stream.next
    BY <1>f, <2>2, <2>3, AppendProperties
  <2>5. EntryInOrder'
    <3> DEFINE l == Len(stream.segments)
    <3>1. l <= stream.next /\ \A i \in 1..l : stream.segments[i] = stream.next - l + i - 1
      BY <1>e DEF EntryInOrder
    <3>2. ASSUME NEW i \in 1..(l + 1)
          PROVE  stream'.segments[i] = stream'.next - Len(stream'.segments) + i - 1
      <4>1. CASE i \in 1..l
        BY <1>f, <2>2, <2>4, <3>1, <4>1
      <4>2. CASE i = l + 1
        BY <1>f, <2>2, <2>4, <4>2
      <4> QED BY <1>f, <4>1, <4>2
    <3>3. Len(stream'.segments) <= stream'.next
      BY <1>f, <2>2, <2>4, <3>1
    <3> QED BY <2>4, <3>2, <3>3 DEF EntryInOrder
  <2>6. EntryOnDisk'
    BY <1>b, <1>e, <1>f, <2>1, <2>4 DEF EntryOnDisk, Made
  <2>7. OpenIsNext'
    BY <1>b, <1>d, <1>h, <2>1 DEF OpenIsNext, Holding
  <2> QED BY <1>i, <2>5, <2>6, <2>7
<1>5. CASE ReadNumber(h)
  <2>1. UNCHANGED <<stream, files, segment>> /\ hand'[h].at = "create" /\ hand'[h].number = stream.next
    BY <1>a, <1>5, HandDoes DEF ReadNumber
  <2> QED BY <1>d, <1>e, <1>i, <2>1 DEF EntryInOrder, EntryOnDisk, OpenIsNext, Made
<1>6. CASE CreateFile(h)
  <2>0. hand[h].at = "create" /\ hand[h].writer = w /\ hand[h].number = stream.next
    BY <1>6, <1>e, <1>g DEF CreateFile, OpenIsNext
  <2>1. UNCHANGED stream /\ hand'[h].at = "idle" /\ segment'[w] = stream.next
    <3>1. hand'[h] = Free /\ segment'[hand[h].writer] = hand[h].number
      BY <1>a, <1>6, HandDoes
    <3>2. UNCHANGED stream
      BY <1>6 DEF CreateFile
    <3> QED BY <2>0, <3>1, <3>2 DEF Free
  <2>2. files' = [m \in DOMAIN files \cup {stream.next} |-> IF m = stream.next THEN w ELSE files[m]]
    BY <1>6, <2>0 DEF CreateFile
  <2>3. Made(stream.next)' /\ \A n : Made(n) => Made(n)'
    BY <2>1, <2>2 DEF Made
  <2>4. EntryInOrder' /\ EntryOnDisk'
    BY <1>e, <2>1, <2>3 DEF EntryInOrder, EntryOnDisk
  <2>5. OpenIsNext'
    BY <1>d, <1>h, <2>0, <2>1, <2>3 DEF OpenIsNext, Holding
  <2> QED BY <1>i, <2>4, <2>5
<1> QED BY <1>1, <1>2, <1>3, <1>4, <1>5, <1>6 DEF HandStep

LEMMA NumberedOthers ==
    ASSUME HlsInv, Fresh, Numbered, Others
    PROVE  Numbered'
<1>a. Shape /\ HlsTypeOK /\ hand \in [Hands -> HandRecord] /\ Tidy /\ runs \in Nat /\ DoingTyped
  BY HandsTyped DEF HlsInv, Shape, HlsTypeOK, DoingTyped
<1>b. segment' = segment /\ \A h \in Hands : h # Stopper => hand'[h] = hand[h]
  BY <1>a, OthersHands, NumbersAre
(* The tables stay, and stop_stream takes the registered writer or none.   *)
<1>0. ASSUME UNCHANGED <<stream, files>>, registered' = registered \/ registered' = None,
             overlapped => overlapped', doing'["start"] = "writer" => doing["start"] = "writer", UNCHANGED runs
      PROVE  Numbered'
  <2>1. \/ hand' = hand
        \/ /\ registered # None /\ hand'[Stopper].writer = registered /\ hand'[Stopper].at = "lock"
        \/ hand'[Stopper].at = "idle"
    BY <1>a, OthersHands DEF Free
  <2> QED BY <1>b, <1>0, <2>1, NumbersAre DEF Numbered, Listed, EntryInOrder, EntryOnDisk, WritersOwn, OpenIsNext, Made
<1>1. CASE InsertStream
  <2>1. ~overlapped' => /\ ~overlapped /\ ~Listed /\ doing["stop"] = "idle"
                        /\ \A h \in Hands : hand[h].at = "idle"
    BY <1>1 DEF InsertStream
  <2>2. /\ stream'.run = runs + 1 /\ stream'.segments = <<>> /\ runs' = runs + 1
        /\ UNCHANGED <<registered, hand>>
        /\ stream'.next = 0
    BY <1>1 DEF InsertStream, NoStream
  <2>3. runs + 1 \in Open
    BY <1>a, <1>1, HlsAssumption DEF InsertStream, Open
  <2>4. segment[runs + 1] = NoSegment
    BY <1>a, <2>3 DEF Fresh
  <2>5. ~overlapped' => registered = None
    BY <1>a, <2>1 DEF Tidy
  <2>6. EntryInOrder' /\ EntryOnDisk'
    BY <2>2, EmptySeq DEF EntryInOrder, EntryOnDisk
  <2>7. ~overlapped' => WritersOwn' /\ OpenIsNext'
    BY <1>b, <2>1, <2>2, <2>4, <2>5 DEF WritersOwn, OpenIsNext
  <2> QED BY <2>2, <2>6, <2>7 DEF Numbered
<1>2. CASE InsertWriter
  <2>1. /\ UNCHANGED <<stream, files, hand, overlapped, runs>> /\ registered' = runs
        /\ doing["start"] = "writer" /\ doing'["start"] = "bind"
    BY <1>a, <1>2 DEF InsertWriter, Advance, DoingTyped, Updaters
  <2> QED BY <1>b, <2>1 DEF Numbered, Listed, EntryInOrder, EntryOnDisk, WritersOwn, OpenIsNext, Made
<1>3. CASE \/ StartReceiver \/ BindFails \/ StopHls \/ Finalized \/ RemoveWriter \/ PlaylistTick
           \/ \E u \in Updaters : UpdateStep(u)
  <2>1. UNCHANGED <<stream, files, runs>> /\ registered' \in {registered, None} /\ (overlapped => overlapped')
    <3>1. CASE StopHls
      <4>1. overlapped' = (overlapped \/ doing["start"] # "idle") /\ overlapped \in BOOLEAN
        BY <1>a, <3>1 DEF StopHls, HlsTypeOK
      <4> QED BY <3>1, <4>1 DEF StopHls
    <3>2. CASE ~StopHls
      BY <1>3, <3>2 DEF StartReceiver, BindFails, Finalized, RemoveWriter, PlaylistTick, UpdateStep,
           CopyStream, NothingToUpdate, WritePlaylist, WriteFails
    <3> QED BY <3>1, <3>2
  <2>2. \E u \in Updaters, to \in {"read", "write", "idle", "remove", "finalize"} \cup {"remove_writer"} :
          doing' = [doing EXCEPT ![u] = to]
    BY <1>3 DEF StartReceiver, BindFails, StopHls, Finalized, RemoveWriter, PlaylistTick, UpdateStep,
         CopyStream, NothingToUpdate, WritePlaylist, WriteFails, Advance, Updaters
  <2>3. doing'["start"] = "writer" => doing["start"] = "writer"
    BY <1>a, <2>2 DEF DoingTyped, Updaters
  <2> QED BY <1>0, <2>1, <2>3
<1>4. CASE RemoveEntry
  <2>1. stream'.run = None /\ UNCHANGED overlapped /\ doing' = [doing EXCEPT !["stop"] = "remove_writer"]
        /\ doing["stop"] = "remove"
    BY <1>4 DEF RemoveEntry, NoStream, Advance
  <2>2. ~overlapped => doing'["start"] # "writer"
    BY <1>a, <2>1 DEF Tidy, DoingTyped, Updaters
  <2> QED BY <2>1, <2>2 DEF Numbered, Listed
<1>5. ASSUME NEW k \in 1..(MaxNumber + 3), DropOldest(k) PROVE Numbered'
  <2> SUFFICES ASSUME ~overlapped, Listed
               PROVE  EntryInOrder' /\ EntryOnDisk' /\ WritersOwn' /\ OpenIsNext'
    <3>1. UNCHANGED <<overlapped, doing, runs>> /\ stream'.run = stream.run
      BY <1>a, <1>5 DEF DropOldest, HlsTypeOK
    <3> QED BY <3>1 DEF Numbered, Listed
  <2> DEFINE l == Len(stream.segments)
  <2>1. k \in Nat
    BY HlsAssumption
  <2>2. /\ k \in 1..l /\ l \in Nat
        /\ Len(stream'.segments) = l - k
        /\ \A i \in 1..Len(stream'.segments) : stream'.segments[i] = stream.segments[k + i]
        /\ stream'.run = stream.run /\ stream'.next = stream.next
    BY <1>a, <1>5, <2>1, DropCuts
  <2>3. EntryInOrder /\ EntryOnDisk /\ WritersOwn /\ OpenIsNext /\ stream.next \in Nat
    BY <1>a DEF Numbered, HlsTypeOK
  <2>4. EntryInOrder'
    <3>1. Len(stream'.segments) <= stream'.next
      BY <2>2, <2>3 DEF EntryInOrder
    <3>2. ASSUME NEW i \in 1..Len(stream'.segments)
          PROVE  stream'.segments[i] = stream'.next - Len(stream'.segments) + i - 1
      <4>1. k + i \in 1..l
        BY <2>2
      <4>2. stream.segments[k + i] = stream.next - l + (k + i) - 1
        BY <2>3, <4>1 DEF EntryInOrder
      <4>3. stream'.segments[i] = stream.segments[k + i] /\ stream'.next = stream.next
        BY <2>2
      <4>4. Len(stream'.segments) = l - k
        BY <2>2
      <4>5. i \in Int /\ k \in Int /\ l \in Int /\ stream.next \in Int
        BY <2>1, <2>2, <2>3
      <4> HIDE DEF l
      <4>6. stream.next - (l - k) + i - 1 = stream.next - l + (k + i) - 1
        BY <4>5
      <4> QED BY <4>2, <4>3, <4>4, <4>6
    <3> QED BY <3>1, <3>2 DEF EntryInOrder
  <2>5. files' = [n \in DOMAIN files \ {stream.segments[i] : i \in 1..k} |-> files[n]]
        /\ UNCHANGED <<registered, hand>>
    BY <1>5 DEF DropOldest
(* What is dropped is older than what stays, and than the next segment.    *)
  <2>6. \A n \in Nat : n >= stream.next - l + k /\ Made(n) => n \in DOMAIN files' /\ files'[n] = stream'.run
    <3>1. ASSUME NEW n \in Nat, n >= stream.next - l + k, NEW i \in 1..k
          PROVE  stream.segments[i] # n
      <4>1. stream.segments[i] = stream.next - l + i - 1
        BY <2>2, <2>3 DEF EntryInOrder
      <4> QED BY <2>2, <2>3, <3>1, <4>1
    <3> QED BY <2>2, <2>5, <3>1 DEF Made
  <2>7. EntryOnDisk'
    <3>1. ASSUME NEW i \in 1..Len(stream'.segments)
          PROVE  stream'.segments[i] \in DOMAIN files' /\ files'[stream'.segments[i]] = stream'.run
      <4>1. k + i \in 1..l /\ stream'.segments[i] = stream.segments[k + i]
        BY <2>2
      <4>2. /\ stream.segments[k + i] = stream.next - l + (k + i) - 1 /\ Made(stream.segments[k + i])
            /\ l <= stream.next
        BY <2>3, <4>1 DEF EntryInOrder, EntryOnDisk
      <4>3. stream.segments[k + i] \in Nat /\ stream.segments[k + i] >= stream.next - l + k
        BY <2>2, <2>3, <4>2
      <4> DEFINE n == stream.segments[k + i]
      <4>4. Made(n) /\ n \in Nat /\ n >= stream.next - l + k
        BY <4>2, <4>3
      <4> HIDE DEF n
      <4>5. n \in DOMAIN files' /\ files'[n] = stream'.run
        BY <2>6, <4>4
      <4> QED BY <4>1, <4>5 DEF n
    <3> QED BY <3>1 DEF EntryOnDisk, Made
  <2>8. Made(stream.next) => Made(stream.next)'
    <3>1. stream.next >= stream.next - l + k
      BY <2>2, <2>3
    <3> QED BY <2>2, <2>3, <2>6, <3>1 DEF Made
  <2>9. WritersOwn' /\ OpenIsNext'
    BY <1>b, <2>2, <2>3, <2>5, <2>8 DEF WritersOwn, OpenIsNext, Made
  <2> QED BY <2>4, <2>7, <2>9
<1> QED BY <1>1, <1>2, <1>3, <1>4, <1>5 DEF Others

LEMMA NumberedStep ==
    ASSUME HlsInv, Fresh, Numbered, [HlsNext]_hlsVars
    PROVE  Numbered'
<1>1. CASE UNCHANGED hlsVars
  BY <1>1 DEF Numbered, Listed, EntryInOrder, EntryOnDisk, WritersOwn, OpenIsNext, Made, hlsVars
<1>2. ASSUME NEW h \in Hands, HandStep(h) PROVE Numbered'
  BY <1>2, NumberedHand
<1>3. CASE Others
  BY <1>3, NumberedOthers
<1> QED BY <1>1, <1>2, <1>3 DEF HlsNext, Others

LEMMA CopiesStep ==
    ASSUME HlsInv, Numbered, CopiesCount, [HlsNext]_hlsVars
    PROVE  CopiesCount'
<1>a. HlsTypeOK
  BY DEF HlsInv, Shape
<1>b. overlapped => overlapped'
  <2>1. overlapped \in BOOLEAN
    BY <1>a DEF HlsTypeOK
  <2>2. overlapped' = overlapped \/ InsertStream \/ StopHls
    BY DEF HlsNext, HandStep, ReceivePacket, LockWriter, AppendData, FlushSegment, FlushFails, PublishSegment,
         ReadNumber, NoNewSegment, CreateFile, InsertWriter, StartReceiver, BindFails, Finalized, RemoveEntry,
         RemoveWriter, UpdateStep, CopyStream, NothingToUpdate, WritePlaylist, WriteFails, PlaylistTick,
         DropOldest, hlsVars
  <2> QED BY <2>1, <2>2 DEF InsertStream, StopHls
<1>1. ASSUME NEW u \in Updaters, CopyStream(u) PROVE CopiesCount'
  <2> SUFFICES ASSUME ~overlapped PROVE Counts(playlist)' /\ \A v \in Updaters : Counts(copy[v])'
    BY <1>b DEF CopiesCount
  <2> DEFINE l == Len(stream.segments)
             c == [run |-> stream.run, first |-> MediaSequence, segments |-> stream.segments]
  <2>1. l \in Nat /\ stream.next \in Nat /\ DOMAIN stream.segments = 1..l
    BY <1>a, LenProperties DEF HlsTypeOK
  <2>2. l <= stream.next /\ \A i \in 1..l : stream.segments[i] = stream.next - l + i - 1
    BY <1>1 DEF CopyStream, Numbered, EntryInOrder
  <2>3. MediaSequence = stream.next - l
    BY <2>1, <2>2 DEF MediaSequence
  <2>4. Counts(c)
    BY <2>1, <2>2, <2>3 DEF Counts
  <2>5. copy' = [copy EXCEPT ![u] = c] /\ UNCHANGED playlist
    BY <1>1 DEF CopyStream
  <2>6. copy' \in [Updaters -> Listing] /\ copy \in [Updaters -> Listing]
    BY <1>a, <2>5, CopyTyped DEF HlsTypeOK, Listing
  <2> HIDE DEF c
  <2>7. \A v \in Updaters : copy'[v] \in {copy[v], c}
    BY <2>5, <2>6
  <2>8. \A v \in Updaters : Counts(copy[v]) /\ Counts(playlist)
    BY DEF CopiesCount
  <2> QED BY <2>4, <2>5, <2>7, <2>8 DEF Counts
<1>2. ASSUME NEW u \in Updaters, WritePlaylist(u) \/ WriteFails(u) PROVE CopiesCount'
  <2> SUFFICES ASSUME ~overlapped PROVE Counts(playlist)' /\ \A v \in Updaters : Counts(copy[v])'
    BY <1>b DEF CopiesCount
  <2>1. copy' = [copy EXCEPT ![u] = NoPlaylist] /\ playlist' \in {playlist, copy[u]}
    BY <1>2 DEF WritePlaylist, WriteFails
  <2>2. Counts(NoPlaylist)
    BY DEF Counts, NoPlaylist
  <2>3. \A v \in Updaters : copy'[v] \in {copy[v], NoPlaylist}
    BY <1>a, <2>1 DEF HlsTypeOK
  <2>4. \A v \in Updaters : Counts(copy[v]) /\ Counts(playlist)
    BY DEF CopiesCount
  <2>5. \A v \in Updaters : Counts(copy'[v])
    BY <2>2, <2>3, <2>4
  <2>6. Counts(playlist')
    BY <2>1, <2>4
  <2> QED BY <2>5, <2>6 DEF Counts
<1>3. CASE ~\E u \in Updaters : CopyStream(u) \/ WritePlaylist(u) \/ WriteFails(u)
  <2>1. UNCHANGED <<playlist, copy>>
    BY <1>3 DEF HlsNext, HandStep, ReceivePacket, LockWriter, AppendData, FlushSegment, FlushFails,
         PublishSegment, ReadNumber, NoNewSegment, CreateFile, InsertStream, InsertWriter, StartReceiver,
         BindFails, StopHls, Finalized, RemoveEntry, RemoveWriter, UpdateStep, NothingToUpdate, PlaylistTick,
         DropOldest, hlsVars
  <2> QED BY <1>b, <2>1 DEF CopiesCount, Counts
<1> QED BY <1>1, <1>2, <1>3

LEMMA ListedAtFirst == HlsInit => Fresh /\ Numbered /\ CopiesCount
<1> SUFFICES ASSUME HlsInit PROVE Fresh /\ Numbered /\ CopiesCount
  OBVIOUS
<1>1. Fresh
  BY DEF HlsInit, Fresh, NoStream, Free, None
<1>2. Numbered
  BY DEF HlsInit, Numbered, Listed, NoStream, Updaters
<1>3. CopiesCount
  BY DEF HlsInit, CopiesCount, Counts, NoPlaylist
<1> QED BY <1>1, <1>2, <1>3

LEMMA HlsListed == HlsSpec => [](HlsInv /\ Fresh /\ Numbered /\ CopiesCount)
<1>1. (HlsInv /\ Fresh /\ Numbered /\ CopiesCount) /\ [HlsNext]_hlsVars
        => (HlsInv /\ Fresh /\ Numbered /\ CopiesCount)'
  BY HlsStep, FreshStep, NumberedStep, CopiesStep
<1> QED BY <1>1, HlsAtFirst, ListedAtFirst, PTL DEF HlsSpec

(* Until runs overlap, a segment in the entry is on disk in the file its   *)
(* own run's writer made.                                                  *)
THEOREM ListedAreOnDisk == HlsSpec => []ListedOnDisk
<1>1. HlsInv /\ Fresh /\ Numbered => ListedOnDisk
  <2> SUFFICES ASSUME HlsInv, Fresh, Numbered, ~overlapped, NEW i \in DOMAIN stream.segments
               PROVE  Made(stream.segments[i])
    BY DEF ListedOnDisk, Made
  <2>1. DOMAIN stream.segments = 1..Len(stream.segments)
    BY LenProperties DEF HlsInv, Shape, HlsTypeOK
  <2>2. Listed
    BY DEF Fresh
  <2> QED BY <2>1, <2>2 DEF Numbered, EntryOnDisk
<1> QED BY <1>1, HlsListed, PTL

(* Until runs overlap, the media sequence of the playlist is the number of *)
(* its first segment, and the others follow without a gap.                 *)
THEOREM PlaylistIsNumbered == HlsSpec => []PlaylistNumbered
<1>1. CopiesCount => PlaylistNumbered
  BY DEF CopiesCount, Counts, PlaylistNumbered
<1> QED BY <1>1, HlsListed, PTL
-----------------------------------------------------------------------------
(* WebRtcServer.                                                           *)

(* A peer of the table has been made. *)
StoredMade == \A p \in Stored : making[p] = "answered"

(* A stop under way has the stream out of the table. *)
StopOwnsStream ==
    /\ closer.at = "idle" => closer.peers = {}
    /\ closer.at # "idle" => ~listed

(* Without a stream, who can still be stored is late. *)
MakersLate == ~listed => \A p \in Peers : making[p] \in {"describe", "insert"} => p \in late

(* Without a stream, who is stored is late or still to be closed. *)
StoredAccounted ==
    ~listed => \A p \in Stored : p \in late \/ closer.at = "list" \/ p \in closer.peers

StopInv == StoredMade /\ StopOwnsStream /\ MakersLate /\ StoredAccounted
-----------------------------------------------------------------------------
(* What the two helpers do to the tables. *)

(* Taking peers out of the table leaves the others as they were. *)
LEMMA RemoveLeaves ==
    ASSUME NEW peers, RtcTypeOK, Remove(peers)
    PROVE  /\ table' \in [Peers -> {"absent", "new", "connected"} \cup Over]
           /\ Stored' = Stored \ peers
           /\ silent' \subseteq Stored'
  BY DEF RtcTypeOK, Remove, Stored, Over

(* Closing peers touches the library's state alone, and keeps its type. *)
LEMMA CloseTyped ==
    ASSUME NEW peers, RtcTypeOK, Close(peers)
    PROVE  actual' \in
             [Peers -> {"none", "new", "connecting", "connected", "closing"} \cup Over]
  BY DEF RtcTypeOK, Close, Over
-----------------------------------------------------------------------------
LEMMA RtcTypeStep ==
    ASSUME RtcTypeOK, [RtcNext]_rtcVars
    PROVE  RtcTypeOK'
<1> USE RtcAssumption DEF RtcTypeOK
<1>1. CASE StartStream
  BY <1>1 DEF StartStream, Stored, library, closers
<1>2. ASSUME NEW p \in Peers, CreateStep(p) PROVE RtcTypeOK'
  <2>1. CASE CheckStream(p)
    BY <2>1 DEF CheckStream, Make, Stored, closers
  <2>2. CASE Describe(p)
    BY <2>2 DEF Describe, Make, Stored, closers
  <2>3. CASE OfferFails(p)
    BY <2>3 DEF OfferFails, Make, Stored, closers
  <2>4. CASE InsertPeer(p)
    BY <2>4 DEF InsertPeer, Make, Stored, closers, library
  <2> QED BY <1>2, <2>1, <2>2, <2>3, <2>4 DEF CreateStep
<1>3. ASSUME NEW p \in Peers, CallbackStep(p) PROVE RtcTypeOK'
  <2>1. ASSUME NEW s \in {"connected"} \cup Over, StateChanges(p, s) PROVE RtcTypeOK'
    BY <2>1 DEF StateChanges, Stored, Over, closers, creation
  <2>2. CASE UpdateState(p)
    BY <2>2 DEF UpdateState, Stored, Over, closers, creation
  <2>3. CASE ClosePeer(p)
    BY <2>3, CloseTyped DEF ClosePeer, Stored, Over, closers, creation
  <2>4. CASE RemovePeer(p)
    BY <2>4, RemoveLeaves DEF RemovePeer, closers, creation
  <2> QED BY <1>3, <2>1, <2>2, <2>3, <2>4 DEF CallbackStep
<1>4. ASSUME NEW p \in Peers, GoesSilent(p) PROVE RtcTypeOK'
  BY <1>4 DEF GoesSilent, Stored, creation, library, closers
<1>5. ASSUME NEW p \in Peers, CloseListed(p) PROVE RtcTypeOK'
  BY <1>5, RemoveLeaves, CloseTyped DEF CloseListed, creation
<1>6. ASSUME NEW p \in Peers, CloseFails(p) PROVE RtcTypeOK'
  BY <1>6, RemoveLeaves DEF CloseFails, Idle, library
<1>7. CASE RemoveStream
  BY <1>7 DEF RemoveStream, Idle, Stored, library
<1>8. CASE ListPeers
  BY <1>8 DEF ListPeers, Stored, creation, library
<1>9. CASE StopDone
  BY <1>9 DEF StopDone, Idle, Stored, creation, library
<1>10. CASE ListInactive
  BY <1>10 DEF ListInactive, Stored, creation, library
<1>11. CASE RemoveInactive
  BY <1>11, RemoveLeaves, CloseTyped DEF RemoveInactive, creation
<1>12. CASE UNCHANGED rtcVars
  BY <1>12 DEF rtcVars, Stored, creation, library, closers
<1> QED
  BY <1>1, <1>2, <1>3, <1>4, <1>5, <1>6, <1>7, <1>8, <1>9, <1>10, <1>11, <1>12
     DEF RtcNext

(* Every variable of the WebRTC server keeps its type, whatever the peers. *)
THEOREM RtcTypeCorrect == RtcSpec => []RtcTypeOK
<1>1. ASSUME RtcInit PROVE RtcTypeOK
  <2>1. listed \in BOOLEAN
    BY <1>1, Zenon DEF RtcInit
  <2>2. closer \in [at : {"idle", "list", "close"}, peers : SUBSET Peers]
    BY <1>1 DEF RtcInit, Idle
  <2>3. silent \subseteq Stored /\ doomed \subseteq Peers /\ late \subseteq Peers
    BY <1>1 DEF RtcInit
  <2>4. lives \in 0..MaxLives
    BY <1>1, RtcAssumption DEF RtcInit
  <2> QED
    BY <1>1, <2>1, <2>2, <2>3, <2>4 DEF RtcInit, RtcTypeOK
<1> QED BY <1>1, RtcTypeStep, PTL DEF RtcSpec
-----------------------------------------------------------------------------
LEMMA StopPeersStep ==
    ASSUME RtcTypeOK, StopInv, [RtcNext]_rtcVars
    PROVE  StopInv'
<1> USE DEF RtcTypeOK, StopInv, StoredMade, StopOwnsStream, MakersLate, StoredAccounted
<1>1. CASE StartStream
  BY <1>1 DEF StartStream, Stored, Idle, library, closers
<1>2. ASSUME NEW p \in Peers, CreateStep(p) PROVE StopInv'
  <2>1. CASE CheckStream(p)
    BY <2>1 DEF CheckStream, Make, Stored, closers
  <2>2. CASE Describe(p)
    BY <2>2 DEF Describe, Make, Stored, closers
  <2>3. CASE OfferFails(p)
    BY <2>3 DEF OfferFails, Make, Stored, closers
  <2>4. CASE InsertPeer(p)
    BY <2>4 DEF InsertPeer, Make, Stored, closers, library
  <2> QED BY <1>2, <2>1, <2>2, <2>3, <2>4 DEF CreateStep
<1>3. ASSUME NEW p \in Peers, CallbackStep(p) PROVE StopInv'
  <2>1. ASSUME NEW s \in {"connected"} \cup Over, StateChanges(p, s) PROVE StopInv'
    BY <2>1 DEF StateChanges, Stored, closers, creation
  <2>2. CASE UpdateState(p)
    BY <2>2 DEF UpdateState, Stored, Over, closers, creation
  <2>3. CASE ClosePeer(p)
    BY <2>3 DEF ClosePeer, Stored, closers, creation
  <2>4. CASE RemovePeer(p)
    BY <2>4, RemoveLeaves DEF RemovePeer, closers, creation
  <2> QED BY <1>3, <2>1, <2>2, <2>3, <2>4 DEF CallbackStep
<1>4. ASSUME NEW p \in Peers, GoesSilent(p) PROVE StopInv'
  BY <1>4 DEF GoesSilent, Stored, creation, library, closers
<1>5. ASSUME NEW p \in Peers, CloseListed(p) PROVE StopInv'
  BY <1>5, RemoveLeaves DEF CloseListed, creation
<1>6. ASSUME NEW p \in Peers, CloseFails(p) PROVE StopInv'
  BY <1>6, RemoveLeaves DEF CloseFails, Idle, library
<1>7. CASE RemoveStream
  BY <1>7 DEF RemoveStream, Idle, Stored, library
<1>8. CASE ListPeers
  BY <1>8 DEF ListPeers, Stored, creation, library
<1>9. CASE StopDone
  BY <1>9 DEF StopDone, Idle, Stored, creation, library
<1>10. CASE ListInactive
  BY <1>10 DEF ListInactive, Stored, creation, library
<1>11. CASE RemoveInactive
  BY <1>11, RemoveLeaves DEF RemoveInactive, creation
<1>12. CASE UNCHANGED rtcVars
  BY <1>12 DEF rtcVars, Stored, creation, library, closers
<1> QED
  BY <1>1, <1>2, <1>3, <1>4, <1>5, <1>6, <1>7, <1>8, <1>9, <1>10, <1>11, <1>12
     DEF RtcNext

(* A stop leaves no peer in the table that it could have known of and did  *)
(* not give up on, whatever callbacks and the cleanup do meanwhile.        *)
THEOREM StopsAreClean == RtcSpec => []StopClearsPeers
<1>1. RtcInit => StopInv
  BY DEF RtcInit, StopInv, StoredMade, StopOwnsStream, MakersLate, StoredAccounted,
         Stored, Idle
<1>2. StopInv => StopClearsPeers
  BY DEF StopInv, StoredAccounted, StopClearsPeers, Stored, Idle
<1> QED BY <1>1, <1>2, StopPeersStep, RtcTypeCorrect, PTL DEF RtcSpec
=============================================================================
