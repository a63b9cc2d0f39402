-------------------------- MODULE RtmpServer_proofs --------------------------
(***************************************************************************)
(* The safety properties of RtmpServer, for any sessions, keys and bounds, *)
(* and those of its codec, RtmpCodec, for any chunk size, payloads and     *)
(* timestamps.                                                             *)
(*                                                                         *)
(* MediaAfterPublish needs what the entry of a connection says at each     *)
(* step: past a publish the key is set before the peer is told, and an     *)
(* entry left by an earlier connection must not be read.  OnePublisher     *)
(* needs that who finds the row live behind its own check has overlapped   *)
(* with whoever set it, and that a run of a stream that goes live anew has *)
(* a number nobody was told yet.  Framing needs that the bytes under way   *)
(* divide into the chunks of the messages not decoded yet.                 *)
(***************************************************************************)
EXTENDS RtmpServer, RtmpCodec, TLAPS

RtmpSteps == {"off", "handshake", "read", "authenticate", "claim", "list", "check", "set",
          "respond", "send"}

(* A publish is of a key that was given; past authentication, of the key   *)
(* of a stream.                                                            *)
Authenticated ==
    \A s \in Sessions :
        /\ at[s] = "authenticate" => asked[s].given \in GivenKeys
        /\ at[s] \in {"claim", "list", "check", "set", "respond"} => asked[s].key \in keys

RtmpTyped == RtmpTypeOK /\ Authenticated

ToldTo(s) == \E t \in told : t.by = s

(* Outside of a publish, an entry with a key is that of a peer told so;    *)
(* a session that is over has no channel.                                  *)
EntryTold ==
    \A s \in Sessions :
        /\ at[s] \in {"handshake", "read", "authenticate"} /\ entry[s].key # NoKey
             => ToldTo(s)
        /\ at[s] = "send" => ToldTo(s)
        /\ at[s] = "off" => queued[s] = 0

MInv == EntryTold /\ MediaAfterPublish
-----------------------------------------------------------------------------
(* Two starts between their check and their update have overlapped. *)
SettingRaced ==
    \A s, t \in Sessions :
        s # t /\ at[s] = "set" /\ at[t] = "set" /\ asked[s].key = asked[t].key =>
            asked[s].raced

Responding(s, k, r) == at[s] = "respond" /\ asked[s].key = k /\ asked[s].run = r

(* Whoever has run r of the stream of key k has overlapped. *)
AllRaced(k, r) ==
    /\ \A t \in told : t.start.key = k /\ t.start.run = r => t.start.raced
    /\ \A s \in Sessions : Responding(s, k, r) => asked[s].raced

(* A start that finds its stream live at its update has overlapped, and so *)
(* has everybody who has the run.                                          *)
LateRaced ==
    \A s \in Sessions :
        at[s] = "set" /\ asked[s].key \in live =>
            asked[s].raced /\ AllRaced(asked[s].key, running[asked[s].key])

(* No run is had before it began. *)
RunsBegun ==
    /\ \A t \in told : t.start.key \in keys /\ t.start.run <= running[t.start.key]
    /\ \A s \in Sessions : at[s] = "respond" => asked[s].run <= running[asked[s].key]

(* OnePublisher, for those about to be told too. *)
OneHolder ==
    /\ OnePublisher
    /\ \A s, u \in Sessions :
         s # u /\ at[s] = "respond" /\ Responding(u, asked[s].key, asked[s].run) =>
             asked[s].raced
    /\ \A s \in Sessions, t \in told :
         Responding(s, t.start.key, t.start.run) => asked[s].raced /\ t.start.raced

PInv == SettingRaced /\ LateRaced /\ RunsBegun /\ OneHolder
-----------------------------------------------------------------------------
LEMMA RtmpTypeStep ==
    ASSUME RtmpTyped, [RtmpNext]_rtmpVars
    PROVE  RtmpTyped'
<1> USE RtmpAssumption DEF RtmpTyped, RtmpTypeOK, Authenticated, Publishing, Parsed, NobodyAsks,
            Pass, RtmpSteps, sessions, streams
<1>1. ASSUME NEW s \in Sessions, Accept(s) PROVE RtmpTyped'
  <2>1. at' \in [Sessions -> RtmpSteps]
    BY <1>1 DEF Accept
  <2>2. entry' \in [Sessions -> [listed : BOOLEAN, key : StreamKeys \cup {NoKey},
                                 publishing : BOOLEAN]]
    BY <1>1 DEF Accept, Nothing
  <2>3. connects' \in 0..MaxConnects /\ told' \subseteq told
    BY <1>1 DEF Accept
  <2> QED BY <1>1, <2>1, <2>2, <2>3 DEF Accept
<1>2. ASSUME NEW s \in Sessions, Handshake(s) PROVE RtmpTyped'
  BY <1>2 DEF Handshake
<1>3. ASSUME NEW s \in Sessions, Fails(s) PROVE RtmpTyped'
  BY <1>3 DEF Fails, EndSession
<1>4. ASSUME NEW s \in Sessions, Closes(s) PROVE RtmpTyped'
  BY <1>4 DEF Closes, EndSession, Nothing
<1>5. ASSUME NEW s \in Sessions, NEW key \in GivenKeys, PublishAfterByte(s, key) PROVE RtmpTyped'
  <2>1. asked' \in [Sessions -> Publishing] /\ at' \in [Sessions -> RtmpSteps]
    <3>1. at' \in [Sessions -> RtmpSteps]
      BY <1>5 DEF PublishAfterByte
    <3> DEFINE a == [[asked[s] EXCEPT !.given = key] EXCEPT !.key = "publish"]
    <3>2. asked' = [asked EXCEPT ![s] = a]
      BY <1>5 DEF PublishAfterByte, ParseStreamKey
    <3>3. asked[s] \in Publishing
      OBVIOUS
    <3>4. a \in Publishing
      BY <3>3
    <3> HIDE DEF Publishing, a
    <3> QED BY <3>1, <3>2, <3>4
  <2>2. Authenticated'
    BY <1>5 DEF PublishAfterByte, ParseStreamKey
  <2> QED BY <1>5, <2>1, <2>2 DEF PublishAfterByte
<1>6. ASSUME NEW s \in Sessions, Authenticate(s) PROVE RtmpTyped'
  BY <1>6 DEF Authenticate
<1>7. ASSUME NEW s \in Sessions, Deny(s) PROVE RtmpTyped'
  BY <1>7 DEF Deny
<1>8. ASSUME NEW s \in Sessions, Claim(s) PROVE RtmpTyped'
  BY <1>8 DEF Claim
<1>9. ASSUME NEW s \in Sessions, List(s) PROVE RtmpTyped'
  BY <1>9 DEF List
<1>10. ASSUME NEW s \in Sessions, CheckLive(s) PROVE RtmpTyped'
  <2> DEFINE meets(t) == Setting(asked[s].key) # {} /\ t \in Setting(asked[s].key) \cup {s}
  <2>1. asked' = [t \in Sessions |-> IF meets(t) THEN [asked[t] EXCEPT !.raced = TRUE]
                                     ELSE asked[t]]
    BY <1>10 DEF CheckLive, EnterStart
  <2>2. ASSUME NEW t \in Sessions
        PROVE  /\ asked'[t] \in Publishing
               /\ asked'[t].key = asked[t].key /\ asked'[t].given = asked[t].given
    <3> HIDE DEF meets
    <3> QED BY <2>1
  <2>3. asked' \in [Sessions -> Publishing] /\ at' \in [Sessions -> RtmpSteps]
    <3>1. at' \in [Sessions -> RtmpSteps]
      BY <1>10 DEF CheckLive, EnterStart
    <3> HIDE DEF meets, Publishing
    <3> QED BY <2>1, <2>2, <3>1
  <2>4. Authenticated'
    BY <1>10, <2>2 DEF CheckLive, EnterStart
  <2> QED BY <1>10, <2>3, <2>4 DEF CheckLive, EnterStart
<1>11. ASSUME NEW s \in Sessions, AlreadyLive(s) PROVE RtmpTyped'
  BY <1>11 DEF AlreadyLive, EndSession
<1>12. ASSUME NEW s \in Sessions, StartSucceeds(s) PROVE RtmpTyped'
  <2> DEFINE k == asked[s].key
  <2>1. k \in keys /\ k \in StreamKeys
    BY <1>12 DEF StartSucceeds
  <2>2. running' \in [StreamKeys -> 0..MaxRunning] /\ live' \subseteq keys
    BY <1>12, <2>1 DEF StartSucceeds, MarkLive
  <2>3. asked' \in [Sessions -> Publishing]
    <3>1. running'[k] \in 0..MaxRunning
      BY <2>1, <2>2
    <3>2. asked' = [asked EXCEPT ![s].run = running'[k]]
      BY <1>12 DEF StartSucceeds
    <3> HIDE DEF k
    <3> QED BY <3>1, <3>2
  <2>4. at' \in [Sessions -> RtmpSteps]
    BY <1>12 DEF StartSucceeds
  <2>5. Authenticated'
    BY <1>12 DEF StartSucceeds
  <2> QED BY <1>12, <2>2, <2>3, <2>4, <2>5 DEF StartSucceeds
<1>13. ASSUME NEW s \in Sessions, StartFails(s) PROVE RtmpTyped'
  <2>1. asked[s].key \in keys /\ asked[s].key \in StreamKeys
    BY <1>13 DEF StartFails
  <2>2. running' \in [StreamKeys -> 0..MaxRunning] /\ live' \subseteq keys
    BY <1>13, <2>1 DEF StartFails, MarkLive
  <2>3. /\ asked' \in [Sessions -> Publishing] /\ at' \in [Sessions -> RtmpSteps]
        /\ queued' \in [Sessions -> 0..QueueSize]
    BY <1>13 DEF StartFails, EndSession
  <2>4. Authenticated'
    BY <1>13 DEF StartFails, EndSession
  <2> QED BY <1>13, <2>2, <2>3, <2>4 DEF StartFails
<1>14. ASSUME NEW s \in Sessions, Respond(s) PROVE RtmpTyped'
  BY <1>14 DEF Respond
<1>15. ASSUME NEW s \in Sessions, Media(s) PROVE RtmpTyped'
  BY <1>15 DEF Media
<1>16. ASSUME NEW s \in Sessions, Queue(s) PROVE RtmpTyped'
  BY <1>16 DEF Queue
<1>17. ASSUME NEW s \in Sessions, Timeout(s) PROVE RtmpTyped'
  BY <1>17 DEF Timeout, EndSession
<1>18. ASSUME NEW k \in StreamKeys, StreamStopped(k) PROVE RtmpTyped'
  BY <1>18 DEF StreamStopped
<1>19. CASE UNCHANGED rtmpVars
  BY <1>19 DEF rtmpVars
<1>20. ASSUME NEW s \in Sessions, NEW key \in GivenKeys, Publish(s, key) PROVE RtmpTyped'
  BY <1>20 DEF Publish, EndSession
<1> QED
  BY <1>1, <1>2, <1>3, <1>4, <1>5, <1>6, <1>7, <1>8, <1>9, <1>10, <1>11, <1>12, <1>13,
     <1>14, <1>15, <1>16, <1>17, <1>18, <1>19, <1>20 DEF RtmpNext

(* The type invariant and what a session past authentication knows hold    *)
(* throughout.                                                             *)
LEMMA RtmpTypedHolds == RtmpSpec => []RtmpTyped
<1>1. ASSUME RtmpInit PROVE RtmpTyped
  BY <1>1, RtmpAssumption DEF RtmpInit, RtmpTyped, RtmpTypeOK, Authenticated, Publishing, Parsed,
              NobodyAsks, Nothing
<1> QED BY <1>1, RtmpTypeStep, PTL DEF RtmpSpec

(* Every variable of the RTMP server keeps its type, whatever the sessions *)
(* and the keys.                                                           *)
THEOREM RtmpTypeCorrect == RtmpSpec => []RtmpTypeOK
<1>1. RtmpTyped => RtmpTypeOK
  BY DEF RtmpTyped
<1> QED BY <1>1, RtmpTypedHolds, PTL
-----------------------------------------------------------------------------
LEMMA MediaStep ==
    ASSUME RtmpTyped, RtmpTyped', MInv, [RtmpNext]_rtmpVars
    PROVE  MInv'
<1> USE DEF MInv, EntryTold, MediaAfterPublish, ToldTo, Pass, sessions, streams
<1>0. queued \in [Sessions -> Nat] /\ at \in [Sessions -> RtmpSteps]
  BY RtmpAssumption DEF RtmpTyped, RtmpTypeOK, RtmpSteps
<1>a. entry \in [Sessions -> [listed : BOOLEAN, key : StreamKeys \cup {NoKey},
                            publishing : BOOLEAN]]
  BY DEF RtmpTyped, RtmpTypeOK
<1>1. ASSUME NEW s \in Sessions, Accept(s) PROVE MInv'
  <2>1. /\ at' = [at EXCEPT ![s] = "handshake"] /\ at[s] = "off" /\ queued' = queued
        /\ entry' = [entry EXCEPT ![s] = [Nothing EXCEPT !.listed = TRUE]]
        /\ told' = {t \in told : t.by # s}
    BY <1>1 DEF Accept
  <2>2. entry'[s].key = NoKey /\ queued'[s] = 0
    BY <1>0, <1>a, <2>1 DEF Nothing
  <2>3. \A t \in Sessions \ {s} : /\ ToldTo(t) => ToldTo(t)'
                                  /\ at'[t] = at[t] /\ entry'[t] = entry[t]
    BY <1>0, <1>a, <2>1
  <2> QED BY <1>0, <2>1, <2>2, <2>3
<1>2. ASSUME NEW s \in Sessions, Handshake(s) PROVE MInv'
  BY <1>0, <1>2 DEF Handshake
<1>3. ASSUME NEW s \in Sessions, EndSession(s), UNCHANGED told,
             \A t \in Sessions \ {s} : entry'[t] = entry[t]
      PROVE  MInv'
  BY <1>0, <1>a, <1>3 DEF EndSession
<1>5. ASSUME NEW s \in Sessions, NEW key \in GivenKeys, PublishAfterByte(s, key) PROVE MInv'
  BY <1>0, <1>5 DEF PublishAfterByte
<1>6. ASSUME NEW s \in Sessions, Authenticate(s) PROVE MInv'
  BY <1>0, <1>6 DEF Authenticate
<1>7. ASSUME NEW s \in Sessions, Deny(s) PROVE MInv'
  BY <1>0, <1>7 DEF Deny
<1>8. ASSUME NEW s \in Sessions, Claim(s) PROVE MInv'
  BY <1>0, <1>a, <1>8 DEF Claim
<1>9. ASSUME NEW s \in Sessions, List(s) PROVE MInv'
  BY <1>0, <1>9 DEF List
<1>10. ASSUME NEW s \in Sessions, CheckLive(s) PROVE MInv'
  BY <1>0, <1>10 DEF CheckLive, EnterStart
<1>12. ASSUME NEW s \in Sessions, StartSucceeds(s) PROVE MInv'
  BY <1>0, <1>12 DEF StartSucceeds
<1>14. ASSUME NEW s \in Sessions, Respond(s) PROVE MInv'
  <2>1. /\ [by |-> s, start |-> asked[s]] \in told' /\ told \subseteq told'
        /\ at' = [at EXCEPT ![s] = "read"] /\ UNCHANGED <<entry, queued>>
    BY <1>14 DEF Respond
  <2>2. ToldTo(s)'
    BY <2>1
  <2> QED BY <1>0, <2>1, <2>2
<1>15. ASSUME NEW s \in Sessions, Media(s) PROVE MInv'
  BY <1>0, <1>15 DEF Media
<1>16. ASSUME NEW s \in Sessions, Queue(s) PROVE MInv'
  BY <1>0, <1>16 DEF Queue
<1>18. ASSUME NEW k \in StreamKeys, StreamStopped(k) PROVE MInv'
  BY <1>18 DEF StreamStopped
<1>19. CASE UNCHANGED rtmpVars
  BY <1>19 DEF rtmpVars
<1> QED
  <2>1. ASSUME NEW s \in Sessions,
               \/ Fails(s) \/ Closes(s) \/ AlreadyLive(s) \/ StartFails(s) \/ Timeout(s)
               \/ \E key \in GivenKeys : Publish(s, key)
        PROVE  MInv'
    BY <1>3, <1>a, <2>1 DEF Publish, Fails, Closes, AlreadyLive, StartFails, Timeout
  <2> QED
    BY <1>1, <1>2, <1>5, <1>6, <1>7, <1>8, <1>9, <1>10, <1>12, <1>14, <1>15, <1>16,
       <1>18, <1>19, <2>1 DEF RtmpNext

(* Only who was told that it publishes has media queued, although the key  *)
(* that lets media in is set before, and outlives the connection.          *)
THEOREM MediaFollowPublish == RtmpSpec => []MediaAfterPublish
<1>1. RtmpInit => MInv
  BY DEF RtmpInit, MInv, EntryTold, MediaAfterPublish, Nothing
<1>2. MInv => MediaAfterPublish
  BY DEF MInv
<1> QED BY <1>1, <1>2, MediaStep, RtmpTypedHolds, PTL DEF RtmpSpec
-----------------------------------------------------------------------------
(* The numbers of runs can be compared. *)
LEMMA RunsAreNumbers ==
    ASSUME RtmpTyped
    PROVE  /\ \A k \in keys : running[k] \in Nat
           /\ \A s \in Sessions : asked[s].run \in Nat
           /\ \A t \in told : t.by \in Sessions /\ t.start.run \in Nat
  BY RtmpAssumption DEF RtmpTyped, RtmpTypeOK, Publishing

(* A step that brings no session to its update or its answer, starts no    *)
(* run and tells nobody.                                                   *)
LEMMA QuietStep ==
    ASSUME PInv, RtmpTyped,
           told' \subseteq told, live' \subseteq live, UNCHANGED <<keys, running>>,
           \A s \in Sessions : \/ at'[s] = at[s] /\ asked'[s] = asked[s]
                               \/ at'[s] \notin {"set", "respond"}
    PROVE  PInv'
<1>1. SettingRaced'
  BY DEF PInv, SettingRaced
<1>2. ASSUME NEW k, NEW r, AllRaced(k, r) PROVE AllRaced(k, r)'
  BY <1>2 DEF AllRaced, Responding
<1>3. LateRaced'
  BY <1>2 DEF PInv, LateRaced
<1>4. RunsBegun'
  BY DEF PInv, RunsBegun
<1>5. OneHolder'
  BY DEF PInv, OneHolder, OnePublisher, Responding
<1> QED BY <1>1, <1>3, <1>4, <1>5 DEF PInv

(* A start that passes its check marks those it overlaps, and itself.      *)
LEMMA CheckStep ==
    ASSUME PInv, RtmpTyped, NEW s \in Sessions, CheckLive(s)
    PROVE  PInv'
<1> DEFINE others == Setting(asked[s].key)
<1>1. /\ at[s] = "check" /\ at' = [at EXCEPT ![s] = "set"]
      /\ asked' = [t \in Sessions |->
                     IF others # {} /\ t \in others \cup {s}
                     THEN [asked[t] EXCEPT !.raced = TRUE] ELSE asked[t]]
      /\ asked[s].key \notin live
      /\ UNCHANGED <<told, live, running, keys>>
  BY DEF CheckLive, EnterStart, Pass, streams
<1>2. at \in [Sessions -> RtmpSteps] /\ asked \in [Sessions -> Publishing]
  BY DEF RtmpTyped, RtmpTypeOK, RtmpSteps
<1>3. \A t \in Sessions :
        /\ asked'[t].key = asked[t].key /\ asked'[t].run = asked[t].run
        /\ asked[t].raced => asked'[t].raced
        /\ t # s /\ at[t] # "set" => asked'[t] = asked[t]
        /\ t # s => at'[t] = at[t]
  BY <1>1, <1>2 DEF Setting, Publishing
<1>4. \A t \in others : asked'[t].raced /\ asked'[s].raced
  BY <1>1, <1>2 DEF Setting, Publishing
<1>5. at'[s] = "set"
  BY <1>1, <1>2
<1> HIDE DEF others
<1>6. SettingRaced'
  <2>1. ASSUME NEW t \in Sessions, t # s, at'[t] = "set", asked'[t].key = asked'[s].key
        PROVE  t \in others
    BY <1>3, <2>1 DEF others, Setting
  <2> QED BY <1>3, <1>4, <2>1 DEF PInv, SettingRaced
<1>7. ASSUME NEW k, NEW r, AllRaced(k, r) PROVE AllRaced(k, r)'
  BY <1>1, <1>3, <1>5, <1>7 DEF AllRaced, Responding
<1>8. LateRaced'
  BY <1>1, <1>3, <1>5, <1>7 DEF PInv, LateRaced
<1>9. RunsBegun'
  BY <1>1, <1>3, <1>5 DEF PInv, RunsBegun
<1>10. OneHolder'
  BY <1>1, <1>3, <1>5 DEF PInv, OneHolder, OnePublisher, Responding
<1> QED BY <1>6, <1>8, <1>9, <1>10 DEF PInv

(* What setting the row live does to the numbers of the runs. *)
LEMMA MarkLiveCounts ==
    ASSUME RtmpTyped, NEW s \in Sessions, at[s] = "set", MarkLive(asked[s].key)
    PROVE  /\ \A k \in keys : running[k] \in Nat /\ running'[k] \in Nat
           /\ \A k \in keys : running[k] <= running'[k]
           /\ \A k \in keys : k # asked[s].key \/ k \in live => running'[k] = running[k]
           /\ asked[s].key \notin live => running'[asked[s].key] = running[asked[s].key] + 1
           /\ asked[s].key \in keys
           /\ live' = live \cup {asked[s].key}
<1>1. /\ asked[s].key \in keys /\ keys \subseteq StreamKeys
      /\ running \in [StreamKeys -> Nat]
  BY RtmpAssumption DEF RtmpTyped, Authenticated, RtmpTypeOK
<1> QED BY <1>1 DEF MarkLive

(* Nobody has a run that is only beginning. *)
LEMMA NewRunFree ==
    ASSUME RtmpTyped, RunsBegun, NEW k \in keys
    PROVE  /\ \A t \in told : t.start.key = k => t.start.run # running[k] + 1
           /\ \A u \in Sessions : ~Responding(u, k, running[k] + 1)
  BY RunsAreNumbers DEF RunsBegun, Responding

(* The row is set and the start fails afterwards.                          *)
LEMMA FailsLive ==
    ASSUME PInv, RtmpTyped, NEW s \in Sessions, at[s] = "set", MarkLive(asked[s].key),
           EndSession(s), UNCHANGED <<told, keys>>
    PROVE  PInv'
<1>1. /\ at'[s] = "off" /\ asked'[s] = NobodyAsks
      /\ \A t \in Sessions \ {s} : at'[t] = at[t] /\ asked'[t] = asked[t]
  BY DEF EndSession, RtmpTyped, RtmpTypeOK
<1>2. SettingRaced'
  BY <1>1 DEF PInv, SettingRaced
<1>3. ASSUME NEW k, NEW r, AllRaced(k, r) PROVE AllRaced(k, r)'
  BY <1>1, <1>3 DEF AllRaced, Responding
<1>4. LateRaced'
  <2> SUFFICES ASSUME NEW t \in Sessions, NEW k, NEW r,
                      at'[t] = "set", k = asked'[t].key, k \in live', r = running'[k]
               PROVE  asked'[t].raced /\ AllRaced(k, r)'
    BY DEF LateRaced, AllRaced, Responding
  <2>1. t # s /\ at[t] = "set" /\ asked'[t] = asked[t] /\ asked[t].key = k /\ k \in keys
    BY <1>1 DEF RtmpTyped, Authenticated
  <2>2. CASE k \in live
    <3>1. r = running[k]
      BY <2>1, <2>2, MarkLiveCounts
    <3>2. asked[t].raced /\ AllRaced(k, r)
      BY <2>1, <2>2, <3>1 DEF PInv, LateRaced
    <3> QED BY <2>1, <3>2, <1>3
  <2>3. CASE k \notin live
    <3>1. k = asked[s].key /\ r = running[k] + 1
      BY <2>1, <2>3, MarkLiveCounts
    <3>2. AllRaced(k, r)
      BY NewRunFree, <2>1, <3>1 DEF AllRaced, PInv
    <3>3. asked[t].raced
      BY <2>1, <3>1 DEF PInv, SettingRaced
    <3> QED BY <2>1, <3>2, <3>3, <1>3
  <2> QED BY <2>2, <2>3
<1>5. RunsBegun'
  <2>1. \A t \in Sessions : at[t] = "respond" => asked[t].key \in keys
    BY DEF RtmpTyped, Authenticated
  <2> QED BY <1>1, <2>1, MarkLiveCounts, RunsAreNumbers DEF PInv, RunsBegun
<1>6. OneHolder'
  BY <1>1 DEF PInv, OneHolder, OnePublisher, Responding
<1> QED BY <1>2, <1>4, <1>5, <1>6 DEF PInv

(* The start sets the row and has the run; whoever is at its update for    *)
(* the same stream has overlapped with it.                                 *)
LEMMA SucceedsStep ==
    ASSUME PInv, RtmpTyped, RtmpTyped', NEW s \in Sessions, StartSucceeds(s)
    PROVE  PInv'
<1> DEFINE mine == asked[s].key
           run == running'[mine]
<1>1. /\ at[s] = "set" /\ MarkLive(mine) /\ UNCHANGED <<told, keys>>
      /\ at' = [at EXCEPT ![s] = "respond"]
      /\ asked' = [asked EXCEPT ![s].run = run]
  BY DEF StartSucceeds, Pass
<1>2. /\ at'[s] = "respond" /\ asked'[s].run = run
      /\ asked'[s].key = mine /\ asked'[s].raced = asked[s].raced
      /\ \A t \in Sessions \ {s} : at'[t] = at[t] /\ asked'[t] = asked[t]
  BY <1>1 DEF RtmpTyped, RtmpTypeOK, Publishing
<1>3. mine \in keys /\ live' = live \cup {mine}
  BY <1>1, MarkLiveCounts
<1>4. mine \in live => run = running[mine] /\ asked[s].raced /\ AllRaced(mine, run)
  BY <1>1, <1>3, MarkLiveCounts DEF PInv, LateRaced
<1>5. mine \notin live => /\ \A t \in told : t.start.key = mine => t.start.run # run
                         /\ \A u \in Sessions : ~Responding(u, mine, run)
  BY <1>1, <1>3, MarkLiveCounts, NewRunFree DEF PInv
<1>6. /\ \A t \in told : t.start.key = mine /\ t.start.run = run =>
                           asked[s].raced /\ t.start.raced
      /\ \A u \in Sessions : Responding(u, mine, run) => asked[s].raced /\ asked[u].raced
  BY <1>4, <1>5 DEF AllRaced
<1>7. SettingRaced'
  BY <1>2 DEF PInv, SettingRaced
<1>8. LateRaced'
  <2> SUFFICES ASSUME NEW t \in Sessions, NEW k, NEW r,
                      at'[t] = "set", k = asked'[t].key, k \in live', r = running'[k]
               PROVE  asked'[t].raced /\ AllRaced(k, r)'
    BY DEF LateRaced, AllRaced, Responding
  <2>1. t # s /\ at[t] = "set" /\ asked'[t] = asked[t] /\ asked[t].key = k /\ k \in keys
    BY <1>2 DEF RtmpTyped, Authenticated
  <2>2. CASE k # mine
    <3>1. r = running[k] /\ k \in live
      BY <1>1, <1>3, <2>1, <2>2, MarkLiveCounts
    <3>2. asked[t].raced /\ AllRaced(k, r)
      BY <2>1, <3>1 DEF PInv, LateRaced
    <3> QED BY <1>1, <1>2, <2>1, <2>2, <3>2 DEF AllRaced, Responding
  <2>3. CASE k = mine
    <3>1. asked[t].raced /\ asked[s].raced
      BY <1>1, <2>1, <2>3 DEF PInv, SettingRaced
    <3>2. \A u \in told : u.start.key = k /\ u.start.run = r => u.start.raced
      BY <1>6, <2>3
    <3>3. \A u \in Sessions : Responding(u, k, r)' => asked'[u].raced
      BY <1>2, <1>6, <2>3, <3>1 DEF Responding
    <3> QED BY <1>1, <2>1, <3>1, <3>2, <3>3 DEF AllRaced
  <2> QED BY <2>2, <2>3
<1>9. RunsBegun'
  <2>1. \A t \in Sessions : at[t] = "respond" => asked[t].key \in keys
    BY DEF RtmpTyped, Authenticated
  <2>2. run \in Nat
    BY <1>1, <1>3, MarkLiveCounts
  <2>3. \A k \in keys : running[k] \in Nat /\ running'[k] \in Nat /\ running[k] <= running'[k]
    BY <1>1, MarkLiveCounts
  <2>4. \A t \in told : t.start.key \in keys /\ t.start.run <= running'[t.start.key]
    BY <2>3, RunsAreNumbers DEF PInv, RunsBegun
  <2>5. ASSUME NEW t \in Sessions, at'[t] = "respond"
        PROVE  asked'[t].run <= running'[asked'[t].key]
    BY <1>2, <2>1, <2>2, <2>3, <2>5, RunsAreNumbers DEF PInv, RunsBegun
  <2> QED BY <1>1, <2>4, <2>5 DEF RunsBegun
<1>10. OneHolder'
  <2>1. OnePublisher'
    BY <1>1 DEF PInv, OneHolder, OnePublisher
  <2>2. ASSUME NEW t \in Sessions, NEW u \in Sessions, NEW k, NEW r,
               t # u, Responding(t, k, r)', Responding(u, k, r)'
        PROVE  asked'[t].raced
    BY <1>2, <1>6, <2>2 DEF PInv, OneHolder, Responding
  <2>3. ASSUME NEW t \in Sessions, NEW u \in told,
               Responding(t, u.start.key, u.start.run)'
        PROVE  asked'[t].raced /\ u.start.raced
    <3>1. CASE t = s
      BY <1>2, <1>6, <2>3, <3>1 DEF Responding
    <3>2. CASE t # s
      BY <1>2, <2>3, <3>2 DEF PInv, OneHolder, Responding
    <3> QED BY <3>1, <3>2
  <2> QED BY <1>1, <2>1, <2>2, <2>3 DEF OneHolder, Responding
<1> QED BY <1>7, <1>8, <1>9, <1>10 DEF PInv

(* The answer makes known who has the run, and nothing else changes.       *)
LEMMA RespondStep ==
    ASSUME PInv, RtmpTyped, NEW s \in Sessions, Respond(s)
    PROVE  PInv'
<1> DEFINE new == [by |-> s, start |-> asked[s]]
<1>1. /\ at[s] = "respond" /\ told' = told \cup {new}
      /\ UNCHANGED <<live, running, keys>>
      /\ at'[s] = "read"
      /\ \A t \in Sessions \ {s} : at'[t] = at[t] /\ asked'[t] = asked[t]
  BY DEF Respond, Pass, streams, RtmpTyped, RtmpTypeOK
<1>2. new.start.key = asked[s].key /\ new.start.run = asked[s].run
        /\ new.start.raced = asked[s].raced
  OBVIOUS
<1>3. Responding(s, new.start.key, new.start.run)
  BY <1>1, <1>2 DEF Responding
<1> HIDE DEF new
<1>4. SettingRaced'
  BY <1>1 DEF PInv, SettingRaced
<1>5. ASSUME NEW k, NEW r, AllRaced(k, r) PROVE AllRaced(k, r)'
  BY <1>1, <1>2, <1>3, <1>5 DEF AllRaced, Responding
<1>6. LateRaced'
  BY <1>1, <1>5 DEF PInv, LateRaced
<1>7. RunsBegun'
  BY <1>1, <1>2 DEF PInv, RunsBegun, RtmpTyped, Authenticated
<1>8. OneHolder'
  <2>1. \A t \in told : t.start.key = new.start.key /\ t.start.run = new.start.run =>
                          t.start.raced /\ new.start.raced
    BY <1>2, <1>3 DEF PInv, OneHolder
  <2>2. \A t \in Sessions \ {s} : Responding(t, new.start.key, new.start.run) =>
                                  asked[t].raced /\ new.start.raced
    BY <1>1, <1>2, <1>3 DEF PInv, OneHolder, Responding
  <2>3. OnePublisher'
    BY <1>1, <2>1 DEF PInv, OneHolder, OnePublisher
  <2>4. ASSUME NEW t \in Sessions, NEW u \in told', Responding(t, u.start.key, u.start.run)'
        PROVE  asked'[t].raced /\ u.start.raced
    BY <1>1, <2>2, <2>4 DEF PInv, OneHolder, Responding
  <2> QED BY <1>1, <2>3, <2>4 DEF PInv, OneHolder, Responding
<1> QED BY <1>4, <1>6, <1>7, <1>8 DEF PInv

LEMMA PublisherStep ==
    ASSUME PInv, RtmpTyped, RtmpTyped', [RtmpNext]_rtmpVars
    PROVE  PInv'
<1>0. at \in [Sessions -> RtmpSteps] /\ asked \in [Sessions -> Publishing]
  BY DEF RtmpTyped, RtmpTypeOK, RtmpSteps
<1>1. ASSUME NEW s \in Sessions, Accept(s) \/ Handshake(s) \/ Media(s) \/ Queue(s) PROVE PInv'
  <2>1. /\ told' \subseteq told /\ UNCHANGED <<asked, live, keys, running>>
        /\ \A t \in Sessions : at'[t] = at[t] \/ at'[t] \notin {"set", "respond"}
    BY <1>0, <1>1 DEF Accept, Handshake, Media, Queue, Pass, streams
  <2> QED BY <2>1, QuietStep
<1>2. ASSUME NEW s \in Sessions, EndSession(s), UNCHANGED <<told, live, keys, running>> PROVE PInv'
  <2>1. \A t \in Sessions : (at'[t] = at[t] /\ asked'[t] = asked[t]) \/ at'[t] = "off"
    BY <1>0, <1>2 DEF EndSession
  <2> QED BY <1>2, <2>1, QuietStep
<1>3. ASSUME NEW s \in Sessions,
             \/ Fails(s) \/ Closes(s) \/ AlreadyLive(s) \/ Timeout(s)
             \/ \E key \in GivenKeys : Publish(s, key)
      PROVE  PInv'
  BY <1>2, <1>3 DEF Publish, Fails, Closes, AlreadyLive, Timeout, streams
<1>4. ASSUME NEW s \in Sessions,
             \/ \E key \in GivenKeys : PublishAfterByte(s, key)
             \/ Authenticate(s) \/ Deny(s) \/ Claim(s) \/ List(s)
      PROVE  PInv'
  <2>1. /\ UNCHANGED <<told, live, keys, running>>
        /\ \A t \in Sessions : \/ at'[t] = at[t] /\ asked'[t] = asked[t]
                              \/ at'[t] \notin {"set", "respond"}
    BY <1>0, <1>4 DEF PublishAfterByte, Authenticate, Deny, Claim, List, Pass, streams
  <2> QED BY <2>1, QuietStep
<1>5. ASSUME NEW s \in Sessions, StartFails(s) PROVE PInv'
  BY <1>2, <1>5, FailsLive DEF StartFails
<1>6. ASSUME NEW k \in StreamKeys, StreamStopped(k) PROVE PInv'
  <2>1. live' \subseteq live /\ UNCHANGED <<at, asked, told, keys, running>>
    BY <1>6 DEF StreamStopped, sessions
  <2> QED BY <2>1, QuietStep
<1>7. CASE UNCHANGED rtmpVars
  <2>1. UNCHANGED <<at, asked, told, live, keys, running>>
    BY <1>7 DEF rtmpVars, sessions, streams
  <2> QED BY <2>1, QuietStep
<1> QED
  BY <1>1, <1>3, <1>4, <1>5, <1>6, <1>7, CheckStep, SucceedsStep, RespondStep DEF RtmpNext

(* Of the peers that publish one key, one at most is told so for each time *)
(* the stream goes live, unless their starts overlapped, whatever sessions *)
(* time out, fail or come back from the same address.                      *)
THEOREM PublishersAreAlone == RtmpSpec => []OnePublisher
<1>1. RtmpInit => PInv
  BY DEF RtmpInit, PInv, SettingRaced, LateRaced, RunsBegun, OneHolder, OnePublisher,
         Responding
<1>2. PInv => OnePublisher
  BY DEF PInv, OneHolder
<1> QED BY <1>1, <1>2, PublisherStep, RtmpTypedHolds, PTL DEF RtmpSpec
-----------------------------------------------------------------------------
(* RtmpCodec.  Numbers as bytes.                                           *)

(* A number is its last byte and the rest.                                 *)
LEMMA Digits ==
    ASSUME NEW n \in Nat
    PROVE  /\ n % 256 \in Byte /\ n \div 256 \in Nat
           /\ n = (n \div 256) * 256 + (n % 256)
           /\ (n \div 256) \div 256 = n \div 65536
<1>1. /\ n % 256 \in Byte /\ n \div 256 \in Nat
      /\ n = (n \div 256) * 256 + (n % 256)
  BY SMT DEF Byte, Top
<1>2. (n \div 256) \div 256 = n \div 65536
  BY SMT
<1> QED BY <1>1, <1>2, SMT

LEMMA HighByte ==
    ASSUME NEW n \in Nat, n <= Extended
    PROVE  (n \div 65536) \in Byte /\ (n \div 65536) % 256 = n \div 65536
<1>1. (n \div 65536) \in Byte
  BY SMT DEF Extended, Byte
<1> QED BY <1>1, SMT DEF Byte

(* Numbers of u24 are three bytes, which say the number again.             *)
LEMMA BigIsThree ==
    ASSUME NEW n \in Nat, n <= Extended
    PROVE  /\ Big3(n) \in Seq(Byte) /\ Len(Big3(n)) = 3
           /\ FromBig3(Big3(n), 1) = n
<1> DEFINE a == n \div 65536
           b == (n \div 256) % 256
           c == n % 256
<1>1. a \in Byte /\ b \in Byte /\ c \in Byte /\ n = a * 65536 + b * 256 + c /\ a % 256 = a
  <2>1. n = (n \div 256) * 256 + c /\ n \div 256 \in Nat /\ c \in Byte
    BY Digits
  <2>2. n \div 256 = a * 256 + b /\ b \in Byte
    BY <2>1, Digits
  <2>3. a \in Byte /\ a % 256 = a
    BY HighByte
  <2> HIDE DEF a, b, c
  <2> QED BY <2>1, <2>2, <2>3, SMT DEF Byte
<1>2. Big3(n) = <<a % 256, b, c>>
  BY DEF Big3
<1> HIDE DEF a, b, c
<1>3. Big3(n) = <<a, b, c>>
  BY <1>1, <1>2
<1>4. Big3(n) \in Seq(Byte) /\ Len(Big3(n)) = 3
  <2>1. <<a, b, c>> \in Seq(Byte) /\ Len(<<a, b, c>>) = 3
    BY <1>1
  <2> QED BY <1>3, <2>1
<1>5. Big3(n)[1] = a /\ Big3(n)[1 + 1] = b /\ Big3(n)[1 + 2] = c
  BY <1>3
<1>6. FromBig3(Big3(n), 1) = n
  BY <1>1, <1>5 DEF FromBig3
<1> QED BY <1>4, <1>6

LEMMA LittleIsFour ==
    ASSUME NEW n \in Nat, n \div Top \in Byte
    PROVE  Little4(n) \in Seq(Byte) /\ Len(Little4(n)) = 4
<1>1. \A k \in Nat : k % 256 \in Byte
  BY DEF Byte
<1>2. n \div 256 \in Nat /\ n \div 65536 \in Nat
  BY SMT
<1> QED BY <1>1, <1>2, SMT DEF Little4, Top

(* The bytes of s stand in t after the first i. *)
Stands(s, t, i) ==
    /\ i + Len(s) <= Len(t)
    /\ \A k \in 1..Len(s) : t[i + k] = s[k]

(* x is s and then t. *)
IsJoined(x, s, t) ==
    /\ x \in Seq(Byte) /\ Len(x) = Len(s) + Len(t)
    /\ \A k \in 1..Len(s) : x[k] = s[k]
    /\ \A k \in 1..Len(t) : x[Len(s) + k] = t[k]

LEMMA JoinedBytes ==
    ASSUME NEW s \in Seq(Byte), NEW t \in Seq(Byte), NEW x, x = s \o t
    PROVE  IsJoined(x, s, t)
<1>1. x \in Seq(Byte) /\ Len(x) = Len(s) + Len(t)
  OBVIOUS
<1>2. \A k \in 1..Len(s) : x[k] = s[k]
  OBVIOUS
<1>3. \A k \in 1..Len(t) : x[Len(s) + k] = t[k]
  OBVIOUS
<1> QED BY <1>1, <1>2, <1>3 DEF IsJoined

(* Joining moves no byte of the first part, and the second comes after it. *)
LEMMA StretchesJoin ==
    ASSUME NEW s \in Seq(Byte), NEW t \in Seq(Byte), NEW x, x = s \o t
    PROVE  /\ x \in Seq(Byte) /\ Len(x) = Len(s) + Len(t)
           /\ Stands(s, x, 0) /\ Stands(t, x, Len(s))
           /\ \A r \in Seq(Byte) : \A i \in Nat : Stands(r, s, i) => Stands(r, x, i)
<1>1. IsJoined(x, s, t)
  BY JoinedBytes
<1>2. x \in Seq(Byte) /\ Len(x) = Len(s) + Len(t)
  BY <1>1 DEF IsJoined
<1>3. \A k \in 1..Len(s) : x[k] = s[k]
  BY <1>1 DEF IsJoined
<1>4. \A k \in 1..Len(t) : x[Len(s) + k] = t[k]
  BY <1>1 DEF IsJoined
<1>5. Stands(s, x, 0) /\ Stands(t, x, Len(s))
  BY <1>2, <1>3, <1>4 DEF Stands
<1>6. ASSUME NEW r \in Seq(Byte), NEW i \in Nat, Stands(r, s, i) PROVE Stands(r, x, i)
  BY <1>2, <1>3, <1>6 DEF Stands
<1> QED BY <1>2, <1>5, <1>6

(* What stands in a part stands in the whole.                              *)
LEMMA StandsIn ==
    ASSUME NEW r \in Seq(Byte), NEW s \in Seq(Byte), NEW t \in Seq(Byte),
           NEW i \in Nat, NEW j \in Nat, Stands(r, s, i), Stands(s, t, j)
    PROVE  Stands(r, t, j + i)
  BY DEF Stands

LEMMA FromStands ==
    ASSUME NEW s \in Seq(Byte), NEW n \in Nat, n <= Extended, NEW i \in Nat, Stands(Big3(n), s, i)
    PROVE  FromBig3(s, i + 1) = n
<1>1. s[i + 1] = Big3(n)[1] /\ s[i + 2] = Big3(n)[2] /\ s[i + 3] = Big3(n)[3]
  BY BigIsThree DEF Stands
<1> QED BY <1>1, BigIsThree, SMT DEF FromBig3

LEMMA OneStands ==
    ASSUME NEW s \in Seq(Byte), NEW n \in Byte, NEW i \in Nat, Stands(<<n>>, s, i)
    PROVE  s[i + 1] = n
  BY DEF Stands
-----------------------------------------------------------------------------
Short(m) == IF m.form = "encoded" THEN m.timestamp % Top
            ELSE IF m.timestamp >= Extended THEN Extended ELSE m.timestamp
ExtendedSize(m) == IF m.form # "encoded" /\ m.timestamp >= Extended THEN 4 ELSE 0

(* What CodecAssumption makes of a message.                                *)
LEMMA MessageIsTyped ==
    ASSUME NEW m \in Messages
    PROVE  /\ m.type \in {9, 20} /\ m.type \in Byte /\ m.type \in Types
           /\ m.timestamp \in Nat /\ m.timestamp \div Top \in Byte
           /\ m.payload \in Seq(Byte) /\ Len(m.payload) \in Nat /\ Len(m.payload) <= Extended
           /\ Short(m) \in Nat /\ Short(m) <= Extended
           /\ ExtendedSize(m) \in {0, 4} /\ m.stream = 1
           /\ ~Astray(m) => (ExtendedSize(m) = 4 <=> Short(m) >= Extended)
           /\ m.form \in {"encoded", "headed", "bare"}
<1>1. /\ m.type \in {9, 20} /\ m.timestamp \in Timestamps /\ m.payload \in Payloads
      /\ m.stream = 1 /\ m.form \in {"encoded", "headed", "bare"}
  BY DEF Messages
<1>2. m.type \in Byte /\ m.type \in Types
  BY <1>1 DEF Types, Byte
<1>3. /\ m.timestamp \in Nat /\ m.timestamp \div Top \in Byte
      /\ m.payload \in Seq(Byte) /\ Len(m.payload) <= Extended
  BY <1>1, CodecAssumption, SMT
<1>4. Extended \in Nat
  BY SMT DEF Extended, Top
<1>5. m.timestamp % Top \in Nat /\ m.timestamp % Top <= Extended
  BY <1>3, SMT DEF Extended, Top
<1>6. Short(m) \in Nat /\ Short(m) <= Extended /\ ExtendedSize(m) \in {0, 4}
  BY <1>3, <1>4, <1>5, SMT DEF Short, ExtendedSize
<1>7. ~Astray(m) => (ExtendedSize(m) = 4 <=> Short(m) >= Extended)
  <2>1. CASE m.form = "encoded"
    BY <1>4, <1>5, <2>1, SMT DEF Short, ExtendedSize, Astray
  <2>2. CASE m.form # "encoded"
    BY <1>3, <1>4, <2>2, SMT DEF Short, ExtendedSize
  <2> QED BY <2>1, <2>2
<1> QED BY <1>1, <1>2, <1>3, <1>6, <1>7, SMT

LEMMA CutIsTyped ==
    ASSUME NEW m \in Messages
    PROVE  /\ Cut(m) \in Seq(Byte)
           /\ Fits(m) => Cut(m) = m.payload /\ Len(Cut(m)) = Len(m.payload)
           /\ ~Fits(m) => Len(Cut(m)) = ChunkSize /\ Len(m.payload) > ChunkSize
           /\ Len(Cut(m)) = IF Len(m.payload) < ChunkSize THEN Len(m.payload) ELSE ChunkSize
<1>1. m.payload \in Seq(Byte) /\ ChunkSize \in Nat
  BY MessageIsTyped, CodecAssumption
<1>2. CASE Fits(m)
  BY <1>1, <1>2 DEF Cut, Fits
<1>3. CASE ~Fits(m)
  <2>1. Len(m.payload) > ChunkSize /\ Cut(m) = SubSeq(m.payload, 1, ChunkSize)
    BY <1>1, <1>3 DEF Cut, Fits
  <2>2. Cut(m) \in Seq(Byte) /\ Len(Cut(m)) = ChunkSize
    BY <1>1, <2>1
  <2> QED BY <1>1, <1>3, <2>1, <2>2
<1> QED BY <1>2, <1>3

LEMMA StampIsTyped ==
    ASSUME NEW m \in Messages, m.form # "encoded"
    PROVE  /\ Stamp(m) = Big3(Short(m)) /\ Stamp(m) \in Seq(Byte)
           /\ Extension(m) \in Seq(Byte) /\ Len(Extension(m)) = ExtendedSize(m)
<1>1. Stamp(m) = Big3(Short(m))
  BY DEF Stamp, Short
<1>2. Stamp(m) \in Seq(Byte)
  BY <1>1, MessageIsTyped, BigIsThree
<1>3. CASE m.timestamp >= Extended
  <2>1. m.timestamp % Top \in Nat /\ m.timestamp % Top <= Extended
    BY MessageIsTyped, SMT DEF Extended, Top
  <2> DEFINE low == Big3(m.timestamp % Top)
             top == m.timestamp \div Top
  <2>2. low \in Seq(Byte) /\ Len(low) = 3
    BY <2>1, BigIsThree
  <2>3. <<top>> \in Seq(Byte) /\ Len(<<top>>) = 1
    BY MessageIsTyped
  <2>4. Extension(m) = <<top>> \o low
    BY <1>3 DEF Extension
  <2>5. ExtendedSize(m) = 1 + 3
    BY <1>3 DEF ExtendedSize
  <2> HIDE DEF low, top
  <2>6. Extension(m) \in Seq(Byte) /\ Len(Extension(m)) = Len(<<top>>) + Len(low)
    BY <2>2, <2>3, <2>4, StretchesJoin
  <2> QED BY <1>1, <1>2, <2>2, <2>3, <2>5, <2>6
<1>4. CASE ~(m.timestamp >= Extended)
  BY <1>1, <1>2, <1>4 DEF Extension, ExtendedSize
<1> QED BY <1>3, <1>4

(* Where the decoder looks for them, the fields of a peer are.             *)
LEMMA FieldsStand ==
    ASSUME NEW m \in Messages, NEW fmt \in 0..1, m.form = "headed"
    PROVE  LET fields == Fields(m, fmt)
           IN  /\ fields \in Seq(Byte)
               /\ Len(fields) = HeaderSize[fmt + 1] + ExtendedSize(m)
               /\ Stands(Big3(Short(m)), fields, 0)
               /\ Stands(Big3(Len(m.payload)), fields, 3)
               /\ Stands(<<m.type>>, fields, 6)
<1> DEFINE time == Big3(Short(m))
           length == Big3(Len(m.payload))
           stream == IF fmt = 0 THEN Little4(m.stream) ELSE <<>>
           late == Extension(m)
<1>1. Fields(m, fmt) = time \o length \o <<m.type>> \o stream \o late
  <2>1. fmt <= 1
    OBVIOUS
  <2>2. Stamp(m) = time
    BY StampIsTyped
  <2> QED BY <2>1, <2>2 DEF Fields
<1>2. time \in Seq(Byte) /\ Len(time) = 3 /\ length \in Seq(Byte) /\ Len(length) = 3
  BY MessageIsTyped, BigIsThree
<1>3. <<m.type>> \in Seq(Byte) /\ Len(<<m.type>>) = 1
  BY MessageIsTyped
<1>4. stream \in Seq(Byte) /\ Len(stream) = HeaderSize[fmt + 1] - 7
  <2>1. CASE fmt = 0
    <3>1. 1 \in Nat /\ 1 \div Top \in Byte
      BY SMT DEF Byte, Top
    <3>2. Little4(m.stream) \in Seq(Byte) /\ Len(Little4(m.stream)) = 4
      BY <3>1, LittleIsFour, MessageIsTyped
    <3> QED BY <2>1, <3>2 DEF HeaderSize
  <2>2. CASE fmt = 1
    BY <2>2 DEF HeaderSize
  <2> QED BY <2>1, <2>2
<1>5. late \in Seq(Byte) /\ Len(late) = ExtendedSize(m)
  BY StampIsTyped
<1> DEFINE type == <<m.type>>
           a == time \o length
           b == a \o type
           c == b \o stream
           d == c \o late
<1> HIDE DEF time, length, stream, late, type
<1>6. a = time \o length /\ b = a \o type /\ c = b \o stream /\ d = c \o late
  OBVIOUS
<1>7. Fields(m, fmt) = d
  BY <1>1 DEF type
<1>8. HeaderSize[fmt + 1] \in Nat
  BY DEF HeaderSize
<1> HIDE DEF a, b, c, d
<1>9. a \in Seq(Byte) /\ Len(a) = 6 /\ Stands(time, a, 0) /\ Stands(length, a, 3)
  <2>1. a \in Seq(Byte) /\ Len(a) = Len(time) + Len(length)
        /\ Stands(time, a, 0) /\ Stands(length, a, Len(time))
    BY <1>2, <1>6, StretchesJoin
  <2> QED BY <1>2, <2>1
<1>10. b \in Seq(Byte) /\ Len(b) = 7 /\ Stands(time, b, 0) /\ Stands(length, b, 3) /\ Stands(type, b, 6)
  <2>1. type \in Seq(Byte) /\ Len(type) = 1
    BY <1>3 DEF type
  <2>2. b \in Seq(Byte) /\ Len(b) = Len(a) + Len(type) /\ Stands(type, b, Len(a))
    BY <1>6, <1>9, <2>1, StretchesJoin
  <2>3. Stands(time, b, 0) /\ Stands(length, b, 3)
    BY <1>2, <1>6, <1>9, <2>1, StretchesJoin
  <2> QED BY <1>9, <2>1, <2>2, <2>3
<1>11. /\ c \in Seq(Byte) /\ Len(c) = HeaderSize[fmt + 1]
       /\ Stands(time, c, 0) /\ Stands(length, c, 3) /\ Stands(type, c, 6)
  <2>1. type \in Seq(Byte)
    BY <1>3 DEF type
  <2>2. Stands(time, c, 0) /\ Stands(length, c, 3) /\ Stands(type, c, 6)
    BY <1>2, <1>4, <1>6, <1>10, <2>1, StretchesJoin
  <2> QED BY <1>4, <1>6, <1>8, <1>10, <2>2, StretchesJoin
<1>12. /\ d \in Seq(Byte) /\ Len(d) = HeaderSize[fmt + 1] + ExtendedSize(m)
       /\ Stands(time, d, 0) /\ Stands(length, d, 3) /\ Stands(type, d, 6)
  <2>1. type \in Seq(Byte)
    BY <1>3 DEF type
  <2>2. Stands(time, d, 0) /\ Stands(length, d, 3) /\ Stands(type, d, 6)
    BY <1>2, <1>5, <1>6, <1>11, <2>1, StretchesJoin
  <2> QED BY <1>5, <1>6, <1>8, <1>11, <2>2, StretchesJoin
<1> QED BY <1>7, <1>12 DEF time, length, type
-----------------------------------------------------------------------------
(* The bytes of S after the first f, up to t, are the chunk of m, and the  *)
(* chunk with the rest of it if it was cut.                                *)
ChunkAt(S, f, t, m) ==
    \E b \in 1..3, fmt \in 0..1 :
        LET header == b + HeaderSize[fmt + 1] + ExtendedSize(m)
            end == f + header + Len(Cut(m))
        IN  /\ S[f + 1] \div 64 = fmt /\ BasicSize(S[f + 1]) = b
            /\ FromBig3(S, f + b + 1) = Short(m)
            /\ FromBig3(S, f + b + 4) = Len(m.payload)
            /\ S[f + b + 7] = m.type
            /\ Stands(Cut(m), S, f + header)
            /\ Fits(m) => end = t
            /\ ~Fits(m) => end < t /\ S[end + 1] \div 64 = 3

(* They are what the peer sent for m.  Of a message that goes astray       *)
(* nothing is said.                                                        *)
FrameAt(S, f, t, m) ==
    /\ f < t
    /\ m.form = "bare" => S[f + 1] \div 64 \in {2, 3}
    /\ m.form # "bare" /\ ~Astray(m) => ChunkAt(S, f, t, m)

LEMMA SameBytes ==
    ASSUME NEW S, NEW R, NEW i, NEW j,
           R[i] = S[j], R[i + 1] = S[j + 1], R[i + 2] = S[j + 2]
    PROVE  FromBig3(R, i) = FromBig3(S, j)
  BY DEF FromBig3

(* Bytes with a message's fields and payload in their places.              *)
LEMMA ChunkMade ==
    ASSUME NEW m \in Messages, NEW fmt \in 0..1, NEW b \in 1..3, NEW x \in Seq(Byte),
           x[1] \div 64 = fmt, BasicSize(x[1]) = b,
           Stands(Big3(Short(m)), x, b), Stands(Big3(Len(m.payload)), x, b + 3),
           Stands(<<m.type>>, x, b + 6),
           Stands(Cut(m), x, b + HeaderSize[fmt + 1] + ExtendedSize(m)),
           Fits(m) => Len(x) = b + HeaderSize[fmt + 1] + ExtendedSize(m) + Len(Cut(m)),
           ~Fits(m) => /\ Len(x) > b + HeaderSize[fmt + 1] + ExtendedSize(m) + Len(Cut(m))
                       /\ x[b + HeaderSize[fmt + 1] + ExtendedSize(m) + Len(Cut(m)) + 1] \div 64 = 3
    PROVE  ChunkAt(x, 0, Len(x), m)
<1>1. /\ Short(m) \in Nat /\ Short(m) <= Extended /\ m.type \in Byte
      /\ Len(m.payload) \in Nat /\ Len(m.payload) <= Extended
  BY MessageIsTyped
<1>2. ExtendedSize(m) \in Nat
  BY DEF ExtendedSize
<1>3. /\ FromBig3(x, b + 1) = Short(m) /\ FromBig3(x, b + 3 + 1) = Len(m.payload)
      /\ x[b + 6 + 1] = m.type
  <2>1. b \in Nat /\ b + 3 \in Nat /\ b + 6 \in Nat
    OBVIOUS
  <2>2. FromBig3(x, b + 1) = Short(m)
    BY <1>1, <2>1, FromStands
  <2>3. FromBig3(x, b + 3 + 1) = Len(m.payload)
    BY <1>1, <2>1, FromStands
  <2>4. x[b + 6 + 1] = m.type
    BY <1>1, <2>1, OneStands
  <2> QED BY <2>2, <2>3, <2>4
<1>4. Cut(m) \in Seq(Byte)
  BY CutIsTyped
<1> DEFINE h == HeaderSize[fmt + 1]
<1>5. h \in Nat
  BY DEF HeaderSize
<1> HIDE DEF h
<1>6. /\ 0 + 1 = 1 /\ 0 + b + 1 = b + 1 /\ 0 + b + 4 = b + 3 + 1 /\ 0 + b + 7 = b + 6 + 1
      /\ 0 + (b + h + ExtendedSize(m)) = b + h + ExtendedSize(m)
  BY <1>2, <1>5
<1>7. /\ Stands(Cut(m), x, b + h + ExtendedSize(m))
      /\ Fits(m) => Len(x) = b + h + ExtendedSize(m) + Len(Cut(m))
      /\ ~Fits(m) => /\ Len(x) > b + h + ExtendedSize(m) + Len(Cut(m))
                     /\ x[b + h + ExtendedSize(m) + Len(Cut(m)) + 1] \div 64 = 3
  BY DEF h
<1> QED BY <1>3, <1>6, <1>7 DEF ChunkAt, h

(* A chunk is one wherever its bytes are.                                  *)
LEMMA ChunkMoves ==
    ASSUME NEW m \in Messages, NEW S \in Seq(Byte), NEW R \in Seq(Byte),
           NEW f \in Nat, NEW t \in Nat, NEW g \in Nat, f <= t, t <= Len(S),
           g + (t - f) <= Len(R), \A k \in 1..(t - f) : R[g + k] = S[f + k],
           ChunkAt(S, f, t, m)
    PROVE  ChunkAt(R, g, g + (t - f), m) /\ f < t
<1>1. PICK b \in 1..3, fmt \in 0..1 :
        LET header == b + HeaderSize[fmt + 1] + ExtendedSize(m)
            end == f + header + Len(Cut(m))
        IN  /\ S[f + 1] \div 64 = fmt /\ BasicSize(S[f + 1]) = b
            /\ FromBig3(S, f + b + 1) = Short(m)
            /\ FromBig3(S, f + b + 4) = Len(m.payload)
            /\ S[f + b + 7] = m.type
            /\ Stands(Cut(m), S, f + header)
            /\ Fits(m) => end = t
            /\ ~Fits(m) => end < t /\ S[end + 1] \div 64 = 3
  BY DEF ChunkAt
<1> DEFINE header == b + HeaderSize[fmt + 1] + ExtendedSize(m)
           end == header + Len(Cut(m))
           n == t - f
<1>2. header \in Nat /\ header >= b + 7
  <2>1. ExtendedSize(m) \in Nat /\ HeaderSize[fmt + 1] \in Nat /\ HeaderSize[fmt + 1] >= 7
    BY DEF ExtendedSize, HeaderSize
  <2>2. \A h \in Nat, e \in Nat : h >= 7 => b + h + e \in Nat /\ b + h + e >= b + 7
    OBVIOUS
  <2> QED BY <2>1, <2>2
<1>3. Cut(m) \in Seq(Byte) /\ Len(Cut(m)) \in Nat
  BY CutIsTyped
<1>4. /\ S[f + 1] \div 64 = fmt /\ BasicSize(S[f + 1]) = b
      /\ FromBig3(S, f + b + 1) = Short(m)
      /\ FromBig3(S, f + b + 4) = Len(m.payload)
      /\ S[f + b + 7] = m.type
      /\ Stands(Cut(m), S, f + header)
  BY <1>1
<1>5. /\ Fits(m) => f + header + Len(Cut(m)) = t
      /\ ~Fits(m) => f + header + Len(Cut(m)) < t /\ S[f + header + Len(Cut(m)) + 1] \div 64 = 3
  BY <1>1
<1> HIDE DEF header
<1>6. end \in Nat /\ f + header + Len(Cut(m)) = f + end
  BY <1>2, <1>3
<1>7. /\ Fits(m) => f + end = t
      /\ ~Fits(m) => f + end < t /\ S[f + end + 1] \div 64 = 3
  BY <1>5, <1>6
<1>8. n \in Nat /\ end >= header
  BY <1>2, <1>3
<1>9. /\ Fits(m) => end = n
      /\ ~Fits(m) => end + 1 <= n
  <2> HIDE DEF end
  <2> QED BY <1>6, <1>7
<1>10. end <= n
  <2> HIDE DEF end, n
  <2> QED BY <1>6, <1>8, <1>9
<1>11. \A k \in 1..n : R[g + k] = S[f + k]
  OBVIOUS
<1> HIDE DEF n
<1>12. ASSUME NEW i \in Nat, NEW j \in Nat, i + j \in 1..n PROVE R[g + i + j] = S[f + i + j]
  <2>1. g + (i + j) = g + i + j /\ f + (i + j) = f + i + j
    OBVIOUS
  <2>2. R[g + (i + j)] = S[f + (i + j)]
    BY <1>11, <1>12
  <2> QED BY <2>1, <2>2
<1>13. /\ R[g + 1] = S[f + 1] /\ R[g + b + 7] = S[f + b + 7]
       /\ R[g + b + 1] = S[f + b + 1] /\ R[g + b + 2] = S[f + b + 2] /\ R[g + b + 3] = S[f + b + 3]
       /\ R[g + b + 4] = S[f + b + 4] /\ R[g + b + 5] = S[f + b + 5] /\ R[g + b + 6] = S[f + b + 6]
  <2>1. b + 7 <= n
    <3> HIDE DEF end
    <3> QED BY <1>2, <1>6, <1>8, <1>10
  <2>2. 1 \in 1..n /\ \A j \in 1..7 : b + j \in 1..n
    BY <1>8, <2>1
  <2>3. \A j \in 1..7 : R[g + b + j] = S[f + b + j]
    <3> TAKE j \in 1..7
    <3>1. b \in Nat /\ j \in Nat /\ b + j \in 1..n
      BY <2>2
    <3> QED BY <1>12, <3>1
  <2> QED BY <1>11, <2>2, <2>3
<1>14. FromBig3(R, g + b + 1) = Short(m) /\ FromBig3(R, g + b + 4) = Len(m.payload)
  <2>1. /\ f + b + 1 + 1 = f + b + 2 /\ f + b + 1 + 2 = f + b + 3
        /\ f + b + 4 + 1 = f + b + 5 /\ f + b + 4 + 2 = f + b + 6
        /\ g + b + 1 + 1 = g + b + 2 /\ g + b + 1 + 2 = g + b + 3
        /\ g + b + 4 + 1 = g + b + 5 /\ g + b + 4 + 2 = g + b + 6
    OBVIOUS
  <2>2. /\ R[g + b + 1 + 1] = S[f + b + 1 + 1] /\ R[g + b + 1 + 2] = S[f + b + 1 + 2]
        /\ R[g + b + 4 + 1] = S[f + b + 4 + 1] /\ R[g + b + 4 + 2] = S[f + b + 4 + 2]
    BY <1>13, <2>1
  <2>3. R[g + b + 1] = S[f + b + 1] /\ R[g + b + 4] = S[f + b + 4]
    BY <1>13
  <2>4. FromBig3(R, g + b + 1) = FromBig3(S, f + b + 1)
    <3> DEFINE i == g + b + 1
               j == f + b + 1
    <3>1. R[i] = S[j] /\ R[i + 1] = S[j + 1] /\ R[i + 2] = S[j + 2]
      BY <2>2, <2>3
    <3> HIDE DEF i, j
    <3>2. FromBig3(R, i) = FromBig3(S, j)
      BY <3>1, SameBytes
    <3> QED BY <3>2 DEF i, j
  <2>5. FromBig3(R, g + b + 4) = FromBig3(S, f + b + 4)
    <3> DEFINE i == g + b + 4
               j == f + b + 4
    <3>1. R[i] = S[j] /\ R[i + 1] = S[j + 1] /\ R[i + 2] = S[j + 2]
      BY <2>2, <2>3
    <3> HIDE DEF i, j
    <3>2. FromBig3(R, i) = FromBig3(S, j)
      BY <3>1, SameBytes
    <3> QED BY <3>2 DEF i, j
  <2> QED BY <1>4, <2>4, <2>5
<1>15. Stands(Cut(m), R, g + header)
  <2>1. g + header + Len(Cut(m)) <= Len(R)
    <3>1. g + n <= Len(R)
      BY DEF n
    <3> QED BY <1>2, <1>3, <1>8, <1>10, <3>1
  <2>2. ASSUME NEW k \in 1..Len(Cut(m)) PROVE R[g + header + k] = Cut(m)[k]
    <3>1. header + k \in 1..n
      BY <1>2, <1>3, <1>8, <1>10, <2>2
    <3>2. R[g + header + k] = S[f + header + k]
      BY <1>2, <1>12, <2>2, <3>1
    <3> QED BY <1>4, <2>2, <3>2 DEF Stands
  <2> QED BY <2>1, <2>2 DEF Stands
<1>16. /\ Fits(m) => g + header + Len(Cut(m)) = g + n
       /\ ~Fits(m) => g + header + Len(Cut(m)) < g + n /\ R[g + header + Len(Cut(m)) + 1] \div 64 = 3
  <2>1. g + header + Len(Cut(m)) = g + end
    BY <1>2, <1>3
  <2> HIDE DEF end
  <2>2. ASSUME ~Fits(m) PROVE R[g + end + 1] = S[f + end + 1]
    <3>1. end + 1 \in 1..n
      BY <1>6, <1>8, <1>9, <2>2
    <3> QED BY <1>6, <1>12, <3>1
  <2> QED BY <1>6, <1>7, <1>8, <1>9, <2>1, <2>2
<1>17. f < t
  <2> HIDE DEF end
  <2>1. f + header <= t
    BY <1>2, <1>6, <1>7, <1>8
  <2>2. header \in Nat /\ header > 0
    BY <1>2
  <2> QED BY <2>1, <2>2
<1>18. ChunkAt(R, g, g + n, m)
  BY <1>4, <1>13, <1>14, <1>15, <1>16 DEF ChunkAt, header
<1> QED BY <1>17, <1>18 DEF n

LEMMA FrameMoves ==
    ASSUME NEW m \in Messages, NEW S \in Seq(Byte), NEW R \in Seq(Byte),
           NEW f \in Nat, NEW t \in Nat, NEW g \in Nat, f <= t, t <= Len(S),
           g + (t - f) <= Len(R), \A k \in 1..(t - f) : R[g + k] = S[f + k],
           FrameAt(S, f, t, m)
    PROVE  FrameAt(R, g, g + (t - f), m) /\ f < t
<1>1. f < t /\ g < g + (t - f) /\ R[g + 1] = S[f + 1]
  <2>1. f < t
    BY DEF FrameAt
  <2>2. 1 \in 1..(t - f) /\ g < g + (t - f)
    BY <2>1
  <2> QED BY <2>1, <2>2
<1>2. ASSUME m.form # "bare", ~Astray(m) PROVE ChunkAt(R, g, g + (t - f), m)
  <2>1. ChunkAt(S, f, t, m)
    BY <1>2 DEF FrameAt
  <2> QED BY <2>1, ChunkMoves
<1>3. m.form = "bare" => R[g + 1] \div 64 \in {2, 3}
  BY <1>1 DEF FrameAt
<1> QED BY <1>1, <1>2, <1>3 DEF FrameAt
-----------------------------------------------------------------------------
(* What a peer of this code sends, and what any other does, is a chunk.    *)
LEMMA EncodeIsFrame ==
    ASSUME NEW m \in Messages, m.form = "encoded"
    PROVE  Encode(m) \in Seq(Byte) /\ FrameAt(Encode(m), 0, Len(Encode(m)), m)
<1> DEFINE time == Big3(Short(m))
           length == Big3(Len(m.payload))
           type == <<m.type>>
           stream == Little4(m.stream)
           whole == m.payload
           first == <<2>>
           a == first \o time
           b == a \o length
           c == b \o type
           d == c \o stream
           x == d \o whole
<1>1. ~Astray(m) => Fits(m) /\ whole = Cut(m)
  BY CutIsTyped DEF Astray
<1>2. Short(m) = m.timestamp % Top /\ ExtendedSize(m) = 0
  BY DEF Short, ExtendedSize
<1>3. Encode(m) = x
  BY <1>2 DEF Encode
<1>4. time \in Seq(Byte) /\ Len(time) = 3 /\ length \in Seq(Byte) /\ Len(length) = 3
  BY MessageIsTyped, BigIsThree
<1>5. type \in Seq(Byte) /\ Len(type) = 1
  BY MessageIsTyped
<1>6. stream \in Seq(Byte) /\ Len(stream) = 4
  <2>1. 1 \in Nat /\ 1 \div Top \in Byte
    BY SMT DEF Byte, Top
  <2> QED BY <2>1, LittleIsFour, MessageIsTyped
<1>7. whole \in Seq(Byte) /\ Len(whole) \in Nat
  BY MessageIsTyped
<1>8. first \in Seq(Byte) /\ Len(first) = 1 /\ first[1] = 2
  BY DEF Byte
<1>9. a = first \o time /\ b = a \o length /\ c = b \o type /\ d = c \o stream /\ x = d \o whole
  OBVIOUS
<1> HIDE DEF time, length, type, stream, whole, first, a, b, c, d, x
<1>10. /\ a \in Seq(Byte) /\ Len(a) = Len(first) + Len(time) /\ Stands(first, a, 0)
      /\ Stands(time, a, Len(first))
  BY <1>4, <1>8, <1>9, StretchesJoin
<1>11. /\ b \in Seq(Byte) /\ Len(b) = Len(a) + Len(length) /\ Stands(first, b, 0)
       /\ Stands(time, b, 1) /\ Stands(length, b, 4)
  <2>1. /\ b \in Seq(Byte) /\ Len(b) = Len(a) + Len(length) /\ Stands(length, b, Len(a))
        /\ \A r \in Seq(Byte) : \A i \in Nat : Stands(r, a, i) => Stands(r, b, i)
    BY <1>4, <1>9, <1>10, StretchesJoin
  <2> QED BY <1>4, <1>8, <1>10, <2>1
<1>12. /\ c \in Seq(Byte) /\ Len(c) = Len(b) + Len(type) /\ Stands(first, c, 0)
       /\ Stands(time, c, 1) /\ Stands(length, c, 4) /\ Stands(type, c, 7)
  <2>1. /\ c \in Seq(Byte) /\ Len(c) = Len(b) + Len(type) /\ Stands(type, c, Len(b))
        /\ \A r \in Seq(Byte) : \A i \in Nat : Stands(r, b, i) => Stands(r, c, i)
    BY <1>5, <1>9, <1>11, StretchesJoin
  <2> QED BY <1>4, <1>5, <1>8, <1>10, <1>11, <2>1
<1>13. /\ d \in Seq(Byte) /\ Len(d) = Len(c) + Len(stream) /\ Stands(first, d, 0)
       /\ Stands(time, d, 1) /\ Stands(length, d, 4) /\ Stands(type, d, 7)
  <2>1. /\ d \in Seq(Byte) /\ Len(d) = Len(c) + Len(stream)
        /\ \A r \in Seq(Byte) : \A i \in Nat : Stands(r, c, i) => Stands(r, d, i)
    BY <1>6, <1>9, <1>12, StretchesJoin
  <2> QED BY <1>4, <1>5, <1>8, <1>12, <2>1
<1>14. Len(d) = 12
  BY <1>4, <1>5, <1>6, <1>8, <1>10, <1>11, <1>12, <1>13
<1>15. /\ x \in Seq(Byte) /\ Len(x) = 12 + Len(whole) /\ Stands(first, x, 0)
       /\ Stands(time, x, 1) /\ Stands(length, x, 4) /\ Stands(type, x, 7) /\ Stands(whole, x, 12)
  <2>1. /\ x \in Seq(Byte) /\ Len(x) = Len(d) + Len(whole) /\ Stands(whole, x, Len(d))
        /\ \A r \in Seq(Byte) : \A i \in Nat : Stands(r, d, i) => Stands(r, x, i)
    BY <1>7, <1>9, <1>13, StretchesJoin
  <2> QED BY <1>4, <1>5, <1>8, <1>13, <1>14, <2>1
<1>16. x[1] \div 64 = 0 /\ BasicSize(x[1]) = 1
  <2>1. x[1] = 2
    BY <1>8, <1>15 DEF Stands
  <2> QED BY <2>1 DEF BasicSize
<1>17. HeaderSize[0 + 1] = 11
  BY DEF HeaderSize
<1>18. ASSUME ~Astray(m) PROVE ChunkAt(x, 0, Len(x), m)
  <2>1. /\ 1 + HeaderSize[0 + 1] + ExtendedSize(m) = 12 /\ 1 + 3 = 4 /\ 1 + 6 = 7
        /\ 0 \in 0..1 /\ 1 \in 1..3
    BY <1>2, <1>17
  <2>2. Fits(m) /\ Len(x) = 12 + Len(Cut(m)) /\ Stands(Cut(m), x, 12)
    BY <1>1, <1>15, <1>18
  <2> QED BY <1>15, <1>16, <2>1, <2>2, ChunkMade DEF time, length, type
<1>19. 0 < Len(x)
  BY <1>7, <1>15
<1>20. FrameAt(x, 0, Len(x), m)
  BY <1>18, <1>19 DEF FrameAt
<1> QED BY <1>3, <1>15, <1>20

LEMMA BasicIsTyped ==
    ASSUME NEW fmt \in 0..3, NEW basic \in Basic(fmt)
    PROVE  /\ basic \in Seq(Byte) /\ Len(basic) \in 1..3
           /\ basic[1] \div 64 = fmt /\ BasicSize(basic[1]) = Len(basic)
<1>1. CASE basic = <<fmt * 64 + 3>>
  <2>1. fmt * 64 + 3 \in Byte /\ (fmt * 64 + 3) \div 64 = fmt /\ (fmt * 64 + 3) % 64 = 3
    BY DEF Byte
  <2> QED BY <1>1, <2>1 DEF BasicSize
<1>2. CASE basic = <<fmt * 64, 6>>
  <2>1. fmt * 64 \in Byte /\ (fmt * 64) \div 64 = fmt /\ (fmt * 64) % 64 = 0 /\ 6 \in Byte
    BY DEF Byte
  <2> QED BY <1>2, <2>1 DEF BasicSize
<1>3. CASE basic = <<fmt * 64 + 1, 6, 1>>
  <2>1. /\ fmt * 64 + 1 \in Byte /\ (fmt * 64 + 1) \div 64 = fmt /\ (fmt * 64 + 1) % 64 = 1
        /\ 6 \in Byte /\ 1 \in Byte
    BY DEF Byte
  <2> QED BY <1>3, <2>1 DEF BasicSize
<1> QED BY <1>1, <1>2, <1>3 DEF Basic

LEMMA RestIsTyped ==
    ASSUME NEW m \in Messages, NEW fmt \in 0..3, NEW basic \in Basic(fmt)
    PROVE  /\ Rest(m, basic) \in Seq(Byte)
           /\ Fits(m) => Len(Rest(m, basic)) = 0
           /\ ~Fits(m) => Len(Rest(m, basic)) > 0 /\ Rest(m, basic)[1] \div 64 = 3
<1> DEFINE rest == Rest(m, basic)
<1>1. CASE Fits(m)
  BY <1>1 DEF Rest
<1>2. CASE ~Fits(m)
  <2> DEFINE id == (basic[1] % 64) + 192
             more == SubSeq(m.payload, ChunkSize + 1, Len(m.payload))
             begin == <<id>> \o Tail(basic)
  <2>1. basic[1] \in Byte /\ basic \in Seq(Byte) /\ Len(basic) > 0
    BY BasicIsTyped
  <2>2. id \in Byte /\ id \div 64 = 3
    <3>1. \A y \in Byte : (y % 64) + 192 \in Byte /\ ((y % 64) + 192) \div 64 = 3
      BY SMT DEF Byte
    <3> QED BY <2>1, <3>1
  <2>3. Tail(basic) \in Seq(Byte)
    BY <2>1
  <2>4. more \in Seq(Byte)
    BY MessageIsTyped, CodecAssumption
  <2>5. rest = begin \o more
    BY <1>2 DEF Rest
  <2>6. <<id>> \in Seq(Byte) /\ Len(<<id>>) = 1 /\ <<id>>[1] = id
    BY <2>2
  <2>7. begin \in Seq(Byte) /\ Len(begin) = 1 + Len(Tail(basic)) /\ begin[1] = id
    <3>1. begin = <<id>> \o Tail(basic)
      OBVIOUS
    <3> HIDE DEF id, begin
    <3>2. begin \in Seq(Byte) /\ Len(begin) = 1 + Len(Tail(basic)) /\ Stands(<<id>>, begin, 0)
      BY <2>3, <2>6, <3>1, StretchesJoin
    <3> QED BY <2>6, <3>2 DEF Stands
  <2> HIDE DEF id, begin, more, rest
  <2>8. rest \in Seq(Byte) /\ Len(rest) = Len(begin) + Len(more) /\ Stands(begin, rest, 0)
    BY <2>4, <2>5, <2>7, StretchesJoin
  <2>9. Len(rest) > 0 /\ rest[1] = id
    BY <2>3, <2>4, <2>7, <2>8 DEF Stands
  <2> QED BY <1>2, <2>2, <2>8, <2>9 DEF rest
<1> QED BY <1>1, <1>2

LEMMA BareIsFrame ==
    ASSUME NEW m \in Messages, NEW fmt \in 2..3, NEW basic \in Basic(fmt), m.form = "bare"
    PROVE  /\ Chunks(m, fmt, basic) \in Seq(Byte)
           /\ FrameAt(Chunks(m, fmt, basic), 0, Len(Chunks(m, fmt, basic)), m)
<1> DEFINE fields == Fields(m, fmt)
           rest == Rest(m, basic)
           a == basic \o fields
           b == a \o Cut(m)
           x == b \o rest
<1>1. Chunks(m, fmt, basic) = x
  BY DEF Chunks
<1>2. basic \in Seq(Byte) /\ Len(basic) \in 1..3 /\ basic[1] \div 64 = fmt
  BY BasicIsTyped
<1>3. fields \in Seq(Byte)
  BY StampIsTyped DEF Fields
<1>4. Cut(m) \in Seq(Byte) /\ rest \in Seq(Byte)
  BY CutIsTyped, RestIsTyped
<1>5. a = basic \o fields /\ b = a \o Cut(m) /\ x = b \o rest
  OBVIOUS
<1> HIDE DEF fields, rest, a, b, x
<1>6. a \in Seq(Byte) /\ Stands(basic, a, 0)
  BY <1>2, <1>3, <1>5, StretchesJoin
<1>7. b \in Seq(Byte) /\ Stands(basic, b, 0)
  BY <1>2, <1>4, <1>5, <1>6, StretchesJoin
<1>8. x \in Seq(Byte) /\ Stands(basic, x, 0)
  BY <1>2, <1>4, <1>5, <1>7, StretchesJoin
<1>9. Len(x) > 0 /\ x[0 + 1] = basic[1]
  BY <1>2, <1>8 DEF Stands
<1>10. FrameAt(x, 0, Len(x), m)
  BY <1>2, <1>9 DEF FrameAt
<1> QED BY <1>1, <1>8, <1>10

LEMMA ChunksAreFrame ==
    ASSUME NEW m \in Messages, NEW fmt \in 0..1, NEW basic \in Basic(fmt), m.form = "headed"
    PROVE  /\ Chunks(m, fmt, basic) \in Seq(Byte)
           /\ FrameAt(Chunks(m, fmt, basic), 0, Len(Chunks(m, fmt, basic)), m)
<1> DEFINE time == Big3(Short(m))
           length == Big3(Len(m.payload))
           type == <<m.type>>
           fields == Fields(m, fmt)
           cut == Cut(m)
           rest == Rest(m, basic)
           a == basic \o fields
           b == a \o cut
           x == b \o rest
           size == HeaderSize[fmt + 1] + ExtendedSize(m)
<1>1. Chunks(m, fmt, basic) = x
  BY DEF Chunks
<1>2. /\ basic \in Seq(Byte) /\ Len(basic) \in 1..3
      /\ basic[1] \div 64 = fmt /\ BasicSize(basic[1]) = Len(basic)
  BY BasicIsTyped
<1>3. /\ fields \in Seq(Byte) /\ Len(fields) = size
      /\ Stands(time, fields, 0) /\ Stands(length, fields, 3) /\ Stands(type, fields, 6)
  BY FieldsStand
<1>4. cut \in Seq(Byte)
  BY CutIsTyped
<1>5. /\ rest \in Seq(Byte)
      /\ Fits(m) => Len(rest) = 0
      /\ ~Fits(m) => Len(rest) > 0 /\ rest[1] \div 64 = 3
  BY RestIsTyped
<1>6. a = basic \o fields /\ b = a \o cut /\ x = b \o rest
  OBVIOUS
<1>7. /\ time \in Seq(Byte) /\ Len(time) = 3 /\ length \in Seq(Byte) /\ Len(length) = 3
      /\ type \in Seq(Byte) /\ Len(type) = 1
  BY MessageIsTyped, BigIsThree
<1>8. HeaderSize[fmt + 1] \in Nat /\ ExtendedSize(m) \in Nat
  BY DEF HeaderSize, ExtendedSize
<1>9. size \in Nat
  BY <1>8
<1> HIDE DEF time, length, type, fields, cut, rest, a, b, x, size
<1>10. /\ a \in Seq(Byte) /\ Len(a) = Len(basic) + size /\ Stands(basic, a, 0)
       /\ Stands(fields, a, Len(basic))
  BY <1>2, <1>3, <1>6, StretchesJoin
<1>11. /\ Stands(time, a, Len(basic)) /\ Stands(length, a, Len(basic) + 3)
       /\ Stands(type, a, Len(basic) + 6)
  <2>1. Len(basic) + 0 = Len(basic) /\ Len(basic) \in Nat
    BY <1>2
  <2>2. Stands(time, a, Len(basic) + 0)
    BY <1>3, <1>7, <1>10, <2>1, StandsIn
  <2> QED BY <1>3, <1>7, <1>10, <2>1, <2>2, StandsIn
<1>12. /\ b \in Seq(Byte) /\ Len(b) = Len(basic) + size + Len(cut) /\ Stands(basic, b, 0)
       /\ Stands(cut, b, Len(basic) + size)
       /\ Stands(time, b, Len(basic)) /\ Stands(length, b, Len(basic) + 3)
       /\ Stands(type, b, Len(basic) + 6)
  <2>1. /\ b \in Seq(Byte) /\ Len(b) = Len(a) + Len(cut) /\ Stands(cut, b, Len(a))
        /\ \A r \in Seq(Byte) : \A i \in Nat : Stands(r, a, i) => Stands(r, b, i)
    BY <1>4, <1>6, <1>10, StretchesJoin
  <2> QED BY <1>2, <1>7, <1>10, <1>11, <2>1
<1>13. /\ x \in Seq(Byte) /\ Len(x) = Len(basic) + size + Len(cut) + Len(rest)
       /\ Stands(basic, x, 0) /\ Stands(cut, x, Len(basic) + size)
       /\ Stands(rest, x, Len(basic) + size + Len(cut))
       /\ Stands(time, x, Len(basic)) /\ Stands(length, x, Len(basic) + 3)
       /\ Stands(type, x, Len(basic) + 6)
  <2>1. /\ x \in Seq(Byte) /\ Len(x) = Len(b) + Len(rest) /\ Stands(rest, x, Len(b))
        /\ \A r \in Seq(Byte) : \A i \in Nat : Stands(r, b, i) => Stands(r, x, i)
    <3>1. rest \in Seq(Byte)
      BY <1>5
    <3> QED BY <1>6, <1>12, <3>1, StretchesJoin
  <2> QED BY <1>2, <1>4, <1>7, <1>9, <1>12, <2>1
<1>14. x[1] \div 64 = fmt /\ BasicSize(x[1]) = Len(basic)
  <2>1. x[0 + 1] = basic[1]
    BY <1>2, <1>13 DEF Stands
  <2> QED BY <1>2, <2>1
<1>15. /\ Fits(m) => Len(x) = Len(basic) + size + Len(cut)
       /\ ~Fits(m) => /\ Len(x) > Len(basic) + size + Len(cut)
                      /\ x[Len(basic) + size + Len(cut) + 1] \div 64 = 3
  <2>1. Len(basic) + size + Len(cut) \in Nat /\ Len(rest) \in Nat
    BY <1>2, <1>4, <1>5, <1>9
  <2>2. Len(rest) > 0 => x[Len(basic) + size + Len(cut) + 1] = rest[1]
    BY <1>13, <2>1 DEF Stands
  <2>3. Len(x) = (Len(basic) + size + Len(cut)) + Len(rest)
    BY <1>13
  <2>4. CASE Fits(m)
    <3>1. Len(rest) = 0
      BY <1>5, <2>4
    <3> QED BY <2>1, <2>3, <2>4, <3>1
  <2>5. CASE ~Fits(m)
    <3>1. Len(rest) > 0 /\ rest[1] \div 64 = 3
      BY <1>5, <2>5
    <3> QED BY <2>1, <2>2, <2>3, <2>5, <3>1
  <2> QED BY <2>4, <2>5
<1>16. Len(basic) + size = Len(basic) + HeaderSize[fmt + 1] + ExtendedSize(m)
  BY <1>2, <1>8 DEF size
<1>17. ChunkAt(x, 0, Len(x), m)
  BY <1>2, <1>13, <1>14, <1>15, <1>16, ChunkMade DEF time, length, type, cut
<1>18. 0 < Len(x)
  BY <1>2, <1>4, <1>5, <1>9, <1>13
<1>19. FrameAt(x, 0, Len(x), m)
  BY <1>17, <1>18 DEF FrameAt
<1> QED BY <1>1, <1>13, <1>19
-----------------------------------------------------------------------------
(* Without length and type in its header, a chunk makes no message.        *)
LEMMA DecodeStuck ==
    ASSUME NEW src \in Seq(Byte), src[1] \div 64 \in {2, 3}, Decode(src) # More
    PROVE  Decode(src) = Invalid
<1>1. 0 \notin Types /\ ~(3 <= 1) /\ ~(2 <= 1)
  BY DEF Types
<1> QED BY <1>1 DEF Decode

Decoded == [is : {"message"}, type : Types, size : Nat, payload : Seq(Byte)]

LEMMA ByteIsNat == \A x \in Byte : x \in Nat
  BY DEF Byte

LEMMA BytesAreNumber ==
    ASSUME NEW s, NEW i, s[i] \in Byte, s[i + 1] \in Byte, s[i + 2] \in Byte
    PROVE  FromBig3(s, i) \in Nat
<1>1. s[i] \in Nat /\ s[i + 1] \in Nat /\ s[i + 2] \in Nat
  BY ByteIsNat
<1>2. \A x \in Nat, y \in Nat, z \in Nat : x * 65536 + y * 256 + z \in Nat
  OBVIOUS
<1> QED BY <1>1, <1>2 DEF FromBig3

(* Whatever the bytes are, what the decoder takes is a message of no more. *)
LEMMA DecodeTyped ==
    ASSUME NEW src \in Seq(Byte), src # <<>>, Decode(src) # More, Decode(src) # Invalid
    PROVE  Decode(src) \in Decoded /\ Decode(src).size \in Nat /\ Decode(src).size <= Len(src)
<1> DEFINE kind == src[1] \div 64
           b == BasicSize(src[1])
           plain == b + HeaderSize[kind + 1]
           short == IF kind = 3 THEN 0 ELSE FromBig3(src, b + 1)
           length == IF kind <= 1 THEN FromBig3(src, b + 4) ELSE 0
           type == IF kind <= 1 THEN src[b + 7] ELSE 0
           header == IF IsExtended(short) THEN plain + 4 ELSE plain
           end == header + IF length < ChunkSize THEN length ELSE ChunkSize
           taken == [is |-> "message", type |-> type, size |-> end,
                     payload |-> SubSeq(src, header + 1, end)]
<1>1. /\ ~(Len(src) < 12 \/ Len(src) < plain) /\ ~(Len(src) < end)
      /\ type \in Types /\ Decode(src) = taken
  BY DEF Decode
<1>2. kind \in 0..1
  <2>1. src[1] \in Byte
    OBVIOUS
  <2>2. kind \in 0..3
    <3>1. \A x \in Byte : x \div 64 \in 0..3
      BY SMT DEF Byte
    <3> QED BY <2>1, <3>1
  <2>3. kind \notin {2, 3}
    BY DecodeStuck
  <2> QED BY <2>2, <2>3
<1>3. b \in 1..3
  BY DEF BasicSize
<1> HIDE DEF kind, b
<1>4. plain \in Nat /\ plain >= b + 7
  BY <1>2, <1>3 DEF HeaderSize
<1> HIDE DEF plain, short
<1>5. length \in Nat
  <2>1. length = FromBig3(src, b + 4)
    BY <1>2
  <2>2. b + 4 \in 1..Len(src) /\ b + 5 \in 1..Len(src) /\ b + 6 \in 1..Len(src)
    BY <1>1, <1>3, <1>4
  <2> DEFINE i == b + 4
  <2>3. i + 1 = b + 5 /\ i + 2 = b + 6
    BY <1>3
  <2>4. src[i] \in Byte /\ src[i + 1] \in Byte /\ src[i + 2] \in Byte
    BY <2>2, <2>3
  <2> HIDE DEF i
  <2>5. FromBig3(src, i) \in Nat
    BY <2>4, BytesAreNumber
  <2> QED BY <2>1, <2>5 DEF i
<1> HIDE DEF length, type
<1>6. header \in Nat
  BY <1>4
<1> HIDE DEF header
<1>7. end \in Nat /\ end <= Len(src)
  BY <1>1, <1>5, <1>6, CodecAssumption
<1> HIDE DEF end
<1>8. SubSeq(src, header + 1, end) \in Seq(Byte)
  BY <1>6, <1>7
<1> QED BY <1>1, <1>7, <1>8 DEF Decoded

(* From a chunk at its front, whatever follows and however much of it has  *)
(* come, the decoder takes this chunk or nothing.                          *)
LEMMA DecodeFrame ==
    ASSUME NEW m \in Messages, NEW S \in Seq(Byte), NEW t \in Nat, t <= Len(S), ChunkAt(S, 0, t, m),
           ~Astray(m), NEW src \in Seq(Byte), src # <<>>, Len(src) <= Len(S),
           \A k \in 1..Len(src) : src[k] = S[k], Decode(src) # More
    PROVE  LET chunk == Decode(src)
           IN  /\ chunk \in Decoded
               /\ chunk.is = "message" /\ chunk.type = m.type /\ chunk.payload = Cut(m)
               /\ chunk.size \in Nat /\ chunk.size <= Len(src)
               /\ Fits(m) => chunk.size = t
               /\ ~Fits(m) => chunk.size < t /\ S[chunk.size + 1] \div 64 = 3
<1>1. PICK b \in 1..3, fmt \in 0..1 :
        LET header == b + HeaderSize[fmt + 1] + ExtendedSize(m)
            end == 0 + header + Len(Cut(m))
        IN  /\ S[0 + 1] \div 64 = fmt /\ BasicSize(S[0 + 1]) = b
            /\ FromBig3(S, 0 + b + 1) = Short(m)
            /\ FromBig3(S, 0 + b + 4) = Len(m.payload)
            /\ S[0 + b + 7] = m.type
            /\ Stands(Cut(m), S, 0 + header)
            /\ Fits(m) => end = t
            /\ ~Fits(m) => end < t /\ S[end + 1] \div 64 = 3
  BY DEF ChunkAt
<1> DEFINE h == HeaderSize[fmt + 1]
           e == ExtendedSize(m)
           c == Len(Cut(m))
           plain == b + h
           header == plain + e
           end == header + c
<1>2. h \in Nat /\ h >= 7 /\ e \in Nat /\ c \in Nat /\ Cut(m) \in Seq(Byte)
  BY CutIsTyped DEF HeaderSize, ExtendedSize
<1>3. /\ S[1] \div 64 = fmt /\ BasicSize(S[1]) = b
      /\ FromBig3(S, b + 1) = Short(m) /\ FromBig3(S, b + 4) = Len(m.payload)
      /\ S[b + 7] = m.type /\ Stands(Cut(m), S, header)
      /\ Fits(m) => end = t
      /\ ~Fits(m) => end < t /\ S[end + 1] \div 64 = 3
  <2>1. /\ 0 + 1 = 1 /\ 0 + b + 1 = b + 1 /\ 0 + b + 4 = b + 4 /\ 0 + b + 7 = b + 7
        /\ 0 + header = header /\ 0 + header + c = end
    BY <1>2
  <2> QED BY <1>1, <2>1
<1> HIDE DEF h, e, c
<1>4. plain \in Nat /\ header \in Nat /\ end \in Nat /\ b + 7 <= plain /\ end = header + c
  BY <1>2
<1> HIDE DEF plain, header, end
<1>5. src[1] = S[1] /\ Len(src) \in Nat
  <2>1. 1 \in 1..Len(src)
    OBVIOUS
  <2> QED BY <2>1
<1> DEFINE short == FromBig3(src, b + 1)
           length == FromBig3(src, b + 4)
           late == IF IsExtended(short) THEN plain + 4 ELSE plain
           stop == late + IF length < ChunkSize THEN length ELSE ChunkSize
           chunk == Decode(src)
<1>6. /\ ~(Len(src) < 12 \/ Len(src) < plain)
      /\ ~(Len(src) < stop)
      /\ src[b + 7] \notin Types => chunk = Invalid
      /\ src[b + 7] \in Types =>
            chunk = [is |-> "message", type |-> src[b + 7], size |-> stop,
                     payload |-> SubSeq(src, late + 1, stop)]
  <2>1. fmt # 3 /\ fmt <= 1
    OBVIOUS
  <2> DEFINE kind == src[1] \div 64
             basic == BasicSize(src[1])
             first == basic + HeaderSize[kind + 1]
             time == IF kind = 3 THEN 0 ELSE FromBig3(src, basic + 1)
             size == IF kind <= 1 THEN FromBig3(src, basic + 4) ELSE 0
             type == IF kind <= 1 THEN src[basic + 7] ELSE 0
             head == IF IsExtended(time) THEN first + 4 ELSE first
             tail == head + IF size < ChunkSize THEN size ELSE ChunkSize
  <2>2. chunk = IF Len(src) < 12 \/ Len(src) < first THEN More
                ELSE IF Len(src) < tail THEN More
                ELSE IF type \notin Types THEN Invalid
                ELSE [is |-> "message", type |-> type, size |-> tail,
                      payload |-> SubSeq(src, head + 1, tail)]
    BY DEF Decode
  <2>3. kind = fmt /\ basic = b
    BY <1>3, <1>5
  <2> HIDE DEF kind, basic
  <2>4. first = plain
    BY <2>3 DEF plain, h
  <2>5. time = short /\ size = length /\ type = src[b + 7]
    BY <2>1, <2>3
  <2> HIDE DEF first, time, size, type, short, length
  <2>6. head = late
    BY <2>4, <2>5
  <2> HIDE DEF head, late
  <2>7. tail = stop
    BY <2>5, <2>6
  <2> HIDE DEF tail, stop, chunk
  <2>8. chunk # More
    BY DEF chunk
  <2> QED BY <2>2, <2>4, <2>5, <2>6, <2>7, <2>8
<1>7. \A j \in 1..7 : src[b + j] = S[b + j]
  <2> TAKE j \in 1..7
  <2>1. b + j \in 1..Len(src)
    BY <1>4, <1>5, <1>6
  <2> QED BY <2>1
<1>8. short = Short(m) /\ length = Len(m.payload) /\ src[b + 7] = m.type
  <2>1. b + 1 + 1 = b + 2 /\ b + 1 + 2 = b + 3 /\ b + 4 + 1 = b + 5 /\ b + 4 + 2 = b + 6
    OBVIOUS
  <2>2. FromBig3(src, b + 1) = FromBig3(S, b + 1)
    <3> DEFINE i == b + 1
    <3>1. src[i] = S[i] /\ src[i + 1] = S[i + 1] /\ src[i + 2] = S[i + 2]
      BY <1>7, <2>1
    <3> HIDE DEF i
    <3>2. FromBig3(src, i) = FromBig3(S, i)
      BY <3>1, SameBytes
    <3> QED BY <3>2 DEF i
  <2>3. FromBig3(src, b + 4) = FromBig3(S, b + 4)
    <3> DEFINE i == b + 4
    <3>1. src[i] = S[i] /\ src[i + 1] = S[i + 1] /\ src[i + 2] = S[i + 2]
      BY <1>7, <2>1
    <3> HIDE DEF i
    <3>2. FromBig3(src, i) = FromBig3(S, i)
      BY <3>1, SameBytes
    <3> QED BY <3>2 DEF i
  <2> QED BY <1>3, <1>7, <2>2, <2>3
<1>9. late = header
  <2> HIDE DEF short
  <2>1. CASE IsExtended(short)
    <3>1. e = 4
      BY <1>8, <2>1, MessageIsTyped DEF IsExtended, e
    <3> QED BY <2>1, <3>1 DEF header
  <2>2. CASE ~IsExtended(short)
    <3>1. e = 0
      BY <1>8, <2>2, MessageIsTyped DEF IsExtended, e
    <3>2. plain + 0 = plain
      BY <1>4
    <3> QED BY <2>2, <3>1, <3>2 DEF header
  <2> QED BY <2>1, <2>2
<1>10. stop = end
  <2>1. c = IF Len(m.payload) < ChunkSize THEN Len(m.payload) ELSE ChunkSize
    BY CutIsTyped DEF c
  <2> HIDE DEF late, length
  <2> QED BY <1>4, <1>8, <1>9, <2>1
<1> HIDE DEF late, stop
<1> HIDE DEF short, length, chunk
<1>13. src[b + 7] \in Types
  BY <1>8, MessageIsTyped
<1>14. SubSeq(src, header + 1, end) = Cut(m)
  <2> DEFINE part == SubSeq(src, header + 1, end)
  <2>1. end <= Len(src) /\ header <= end /\ header + 1 \in Nat
    BY <1>2, <1>4, <1>5, <1>6, <1>10
  <2>2. part \in Seq(Byte) /\ Len(part) = c /\ \A k \in 1..c : part[k] = src[header + k]
    BY <1>2, <1>4, <1>5, <2>1
  <2>3. \A k \in 1..c : src[header + k] = Cut(m)[k]
    <3> TAKE k \in 1..c
    <3>1. header + k \in 1..Len(src)
      BY <1>2, <1>4, <1>5, <2>1
    <3>2. src[header + k] = S[header + k]
      BY <3>1
    <3> QED BY <1>3, <3>2 DEF Stands, c
  <2> HIDE DEF part
  <2>4. part = Cut(m)
    BY <1>2, <2>2, <2>3 DEF c
  <2> QED BY <2>4 DEF part
<1>15. chunk = [is |-> "message", type |-> m.type, size |-> end,
                payload |-> Cut(m)]
  BY <1>6, <1>8, <1>9, <1>10, <1>13, <1>14
<1>16. end <= Len(src)
  BY <1>4, <1>5, <1>6, <1>10
<1>17. chunk \in Decoded
  BY <1>2, <1>4, <1>15, MessageIsTyped DEF Decoded
<1> QED BY <1>3, <1>4, <1>15, <1>16, <1>17 DEF chunk
-----------------------------------------------------------------------------
(* The bytes of S are those of the messages of s after the first r.        *)
Framed(S, s, r) ==
    \E pos \in [0..(Len(s) - r) -> 0..Len(S)] :
        /\ pos[0] = 0 /\ pos[Len(s) - r] = Len(S)
        /\ \A j \in 0..(Len(s) - r), k \in 0..(Len(s) - r) : j <= k => pos[j] <= pos[k]
        /\ \A k \in 1..(Len(s) - r) : FrameAt(S, pos[k - 1], pos[k], s[r + k])

LEMMA NothingFramed ==
    ASSUME NEW s \in Seq(Messages), NEW S \in Seq(Byte), Len(S) = 0
    PROVE  Framed(S, s, Len(s))
<1> DEFINE pos == [k \in 0..0 |-> 0]
<1>1. Len(s) - Len(s) = 0
  OBVIOUS
<1>2. pos \in [0..0 -> 0..Len(S)] /\ pos[0] = 0
  OBVIOUS
<1>3. \A j \in 0..0, k \in 0..0 : pos[j] <= pos[k]
  OBVIOUS
<1> HIDE DEF pos
<1> QED BY <1>1, <1>2, <1>3 DEF Framed

(* Taking the first message off.                                           *)
LEMMA FirstFrame ==
    ASSUME NEW S \in Seq(Byte), NEW s \in Seq(Messages), NEW r \in 0..Len(s), Framed(S, s, r),
           Len(S) > 0
    PROVE  /\ r < Len(s)
           /\ \E t \in 1..Len(S) : /\ FrameAt(S, 0, t, s[r + 1])
                                   /\ Framed(SubSeq(S, t + 1, Len(S)), s, r + 1)
<1> DEFINE n == Len(s) - r
<1>1. n \in Nat
  OBVIOUS
<1>2. PICK pos \in [0..n -> 0..Len(S)] :
        /\ pos[0] = 0 /\ pos[n] = Len(S)
        /\ \A j \in 0..n, k \in 0..n : j <= k => pos[j] <= pos[k]
        /\ \A k \in 1..n : FrameAt(S, pos[k - 1], pos[k], s[r + k])
  BY DEF Framed
<1>3. n # 0
  BY <1>2
<1>4. r < Len(s) /\ s[r + 1] \in Messages
  BY <1>3
<1> DEFINE t == pos[1]
<1>5. t \in 0..Len(S) /\ FrameAt(S, 0, t, s[r + 1]) /\ t <= Len(S)
  <2>1. 1 \in 1..n /\ 1 \in 0..n /\ 1 - 1 = 0
    BY <1>1, <1>3
  <2>2. t \in 0..Len(S)
    BY <1>2, <2>1
  <2>3. t \in 0..Len(S) /\ t <= Len(S)
    <3> HIDE DEF t
    <3> QED BY <2>2
  <2>4. FrameAt(S, pos[1 - 1], t, s[r + 1])
    BY <1>2, <2>1
  <2>5. pos[1 - 1] = 0
    BY <1>2, <2>1
  <2> HIDE DEF t
  <2> QED BY <2>3, <2>4, <2>5
<1> DEFINE R == SubSeq(S, t + 1, Len(S))
           new == [k \in 0..(n - 1) |-> pos[k + 1] - t]
<1> HIDE DEF t
<1>6. R \in Seq(Byte) /\ Len(R) = Len(S) - t /\ \A k \in 1..Len(R) : R[k] = S[t + k]
  BY <1>5
<1>7. t > 0
  <2>1. 0 <= t /\ 0 + (t - 0) <= Len(S) /\ \A k \in 1..(t - 0) : S[0 + k] = S[0 + k]
    BY <1>5
  <2> QED BY <1>4, <1>5, <2>1, FrameMoves
<1>8. \A k \in 0..(n - 1) : /\ k + 1 \in 0..n /\ pos[k + 1] \in t..Len(S)
  <2> TAKE k \in 0..(n - 1)
  <2>1. k + 1 \in 0..n /\ 1 \in 0..n /\ 1 <= k + 1
    BY <1>1, <1>3
  <2>2. pos[k + 1] \in 0..Len(S) /\ t <= pos[k + 1]
    BY <1>2, <2>1 DEF t
  <2> QED BY <1>5, <2>1, <2>2
<1>9. new \in [0..(n - 1) -> 0..Len(R)]
  <2>1. \A k \in 0..(n - 1) : pos[k + 1] - t \in 0..Len(R)
    BY <1>5, <1>6, <1>8
  <2> QED BY <2>1
<1>10. new[0] = 0 /\ new[n - 1] = Len(R)
  <2>1. 0 \in 0..(n - 1) /\ n - 1 \in 0..(n - 1) /\ 0 + 1 = 1 /\ (n - 1) + 1 = n
    BY <1>1, <1>3
  <2>2. new[0] = t - t /\ new[n - 1] = Len(S) - t
    BY <1>2, <2>1 DEF t
  <2> QED BY <1>5, <1>6, <2>2
<1>11. ASSUME NEW j \in 0..(n - 1), NEW k \in 0..(n - 1), j <= k PROVE new[j] <= new[k]
  <2>1. pos[j + 1] <= pos[k + 1]
    BY <1>2, <1>8, <1>11
  <2> QED BY <1>5, <1>8, <2>1
<1>12. ASSUME NEW k \in 1..(n - 1) PROVE FrameAt(R, new[k - 1], new[k], s[r + 1 + k])
  <2> DEFINE f == pos[k]
             u == pos[k + 1]
             g == f - t
  <2>1. k - 1 \in 0..(n - 1) /\ k \in 0..(n - 1) /\ k - 1 + 1 = k /\ k + 1 \in 1..n /\ k + 1 - 1 = k
    BY <1>1, <1>12
  <2>2. f \in t..Len(S) /\ u \in t..Len(S)
    BY <1>8, <2>1
  <2>3. FrameAt(S, f, u, s[r + (k + 1)]) /\ f <= u
    <3>1. k \in 0..n /\ k + 1 \in 0..n /\ k <= k + 1
      BY <1>1, <1>12
    <3> QED BY <1>2, <2>1, <3>1
  <2>4. r + (k + 1) = r + 1 + k /\ r + 1 + k \in 1..Len(s)
    BY <1>1, <1>12
  <2>5. new[k - 1] = g /\ new[k] = u - t
    BY <2>1
  <2> HIDE DEF f, u, g, n
  <2>6. f \in Nat /\ u \in Nat /\ g \in Nat /\ u <= Len(S) /\ g + (u - f) = u - t /\ u - t <= Len(R)
    BY <1>5, <1>6, <2>2 DEF g
  <2>7. \A i \in 1..(u - f) : R[g + i] = S[f + i]
    <3> TAKE i \in 1..(u - f)
    <3>1. g + i \in 1..Len(R) /\ t + (g + i) = f + i
      BY <1>5, <1>6, <2>2, <2>6 DEF g
    <3> QED BY <1>6, <3>1
  <2>8. FrameAt(R, g, g + (u - f), s[r + 1 + k])
    <3>1. s[r + 1 + k] \in Messages
      BY <2>4
    <3> HIDE DEF R
    <3> QED BY <1>6, <2>3, <2>4, <2>6, <2>7, <3>1, FrameMoves
  <2> QED BY <2>5, <2>6, <2>8
<1>13. Framed(R, s, r + 1)
  <2>1. Len(s) - (r + 1) = n - 1
    OBVIOUS
  <2> HIDE DEF R, new, n
  <2> QED BY <1>9, <1>10, <1>11, <1>12, <2>1 DEF Framed
<1> QED BY <1>4, <1>5, <1>7, <1>13

(* Sending one more.                                                       *)
LEMMA FramedSend ==
    ASSUME NEW S \in Seq(Byte), NEW s \in Seq(Messages), NEW r \in 0..Len(s), Framed(S, s, r),
           NEW m \in Messages, NEW bytes \in Seq(Byte), FrameAt(bytes, 0, Len(bytes), m)
    PROVE  Framed(S \o bytes, Append(s, m), r)
<1> DEFINE n == Len(s) - r
           R == S \o bytes
           after == Append(s, m)
<1>1. n \in Nat /\ Len(after) - r = n + 1
  OBVIOUS
<1>2. PICK pos \in [0..n -> 0..Len(S)] :
        /\ pos[0] = 0 /\ pos[n] = Len(S)
        /\ \A j \in 0..n, k \in 0..n : j <= k => pos[j] <= pos[k]
        /\ \A k \in 1..n : FrameAt(S, pos[k - 1], pos[k], s[r + k])
  BY DEF Framed
<1> DEFINE new == [k \in 0..(n + 1) |-> IF k = n + 1 THEN Len(R) ELSE pos[k]]
<1>3. /\ R \in Seq(Byte) /\ Len(R) = Len(S) + Len(bytes)
      /\ \A k \in 1..Len(S) : R[k] = S[k]
      /\ \A k \in 1..Len(bytes) : R[Len(S) + k] = bytes[k]
  OBVIOUS
<1>4. /\ \A k \in 1..n : after[r + k] = s[r + k] /\ s[r + k] \in Messages
      /\ after[r + (n + 1)] = m
  OBVIOUS
<1> HIDE DEF R, n, after
<1>5. /\ new[n + 1] = Len(R)
      /\ \A k \in 0..n : new[k] = pos[k] /\ new[k] \in 0..Len(S)
  BY <1>1, <1>2
<1>6. new \in [0..(n + 1) -> 0..Len(R)]
  <2>1. Len(S) \in Nat /\ Len(bytes) \in Nat /\ Len(R) \in Nat /\ Len(S) <= Len(R)
    BY <1>3
  <2>2. \A k \in 0..n : pos[k] \in 0..Len(R)
    BY <1>1, <1>2, <2>1
  <2>3. ASSUME NEW k \in 0..(n + 1)
        PROVE  (IF k = n + 1 THEN Len(R) ELSE pos[k]) \in 0..Len(R)
    <3>1. k = n + 1 \/ k \in 0..n
      BY <1>1
    <3> QED BY <2>1, <2>2, <3>1
  <2> QED BY <2>3
<1> HIDE DEF new
<1>7. new[0] = 0
  BY <1>1, <1>2, <1>5
<1>8. ASSUME NEW j \in 0..(n + 1), NEW k \in 0..(n + 1), j <= k PROVE new[j] <= new[k]
  <2>1. CASE k = n + 1
    BY <1>5, <1>6, <2>1
  <2>2. CASE k # n + 1
    <3>1. j \in 0..n /\ k \in 0..n
      BY <1>1, <1>8, <2>2
    <3> QED BY <1>2, <1>5, <1>8, <3>1
  <2> QED BY <2>1, <2>2
<1>9. ASSUME NEW k \in 1..n PROVE FrameAt(R, new[k - 1], new[k], after[r + k])
  <2> DEFINE f == pos[k - 1]
             t == pos[k]
  <2>1. k - 1 \in 0..n /\ k \in 0..n /\ k - 1 <= k
    BY <1>1, <1>9
  <2>2. f \in 0..Len(S) /\ t \in 0..Len(S) /\ f <= t /\ FrameAt(S, f, t, s[r + k])
    BY <1>2, <2>1
  <2>3. new[k - 1] = f /\ new[k] = t
    BY <1>5, <2>1
  <2> HIDE DEF f, t
  <2>4. f \in Nat /\ t \in Nat /\ t <= Len(S) /\ f + (t - f) = t /\ t <= Len(R)
    BY <1>3, <2>2
  <2>5. \A i \in 1..(t - f) : R[f + i] = S[f + i]
    <3> TAKE i \in 1..(t - f)
    <3>1. f + i \in 1..Len(S)
      BY <2>2, <2>4
    <3> QED BY <1>3, <3>1
  <2>6. FrameAt(R, f, f + (t - f), s[r + k])
    BY <1>3, <1>4, <2>2, <2>4, <2>5, FrameMoves
  <2> QED BY <1>4, <2>3, <2>4, <2>6
<1>10. FrameAt(R, new[n], new[n + 1], after[r + (n + 1)])
  <2>1. new[n] = Len(S)
    BY <1>1, <1>2, <1>5
  <2> DEFINE l == Len(bytes)
             g == Len(S)
  <2>2. l \in Nat /\ g \in Nat /\ Len(R) = g + l /\ l - 0 = l /\ g + (l - 0) = Len(R)
    BY <1>3
  <2>3. \A i \in 1..(l - 0) : R[g + i] = bytes[0 + i]
    <3> TAKE i \in 1..(l - 0)
    <3>1. 0 + i = i /\ i \in 1..Len(bytes)
      BY <2>2
    <3> QED BY <1>3, <3>1
  <2> HIDE DEF l, g
  <2>4. FrameAt(bytes, 0, l, m) /\ l = Len(bytes) /\ g + (l - 0) <= Len(R) /\ 0 <= l /\ l <= Len(bytes)
    BY <2>2 DEF l
  <2>5. FrameAt(R, g, g + (l - 0), m)
    BY <1>3, <2>2, <2>3, <2>4, FrameMoves
  <2> QED BY <1>4, <1>5, <2>1, <2>2, <2>5 DEF g
<1>11. \A k \in 1..(n + 1) : FrameAt(R, new[k - 1], new[k], after[r + k])
  <2> TAKE k \in 1..(n + 1)
  <2>1. k \in 1..n \/ (k = n + 1 /\ k - 1 = n)
    BY <1>1
  <2> QED BY <1>9, <1>10, <2>1
<1>12. Framed(R, after, r)
  BY <1>1, <1>5, <1>6, <1>7, <1>8, <1>11 DEF Framed
<1> QED BY <1>12 DEF R, after
-----------------------------------------------------------------------------
Bytes == buffer \o wire

Strayed == \E j \in DOMAIN sent : j <= Len(received) /\ Astray(sent[j])
CutBefore == received # <<>> /\ ~Fits(sent[Len(received)])

(* After a payload that was cut the next bytes are of a chunk of fmt 3,    *)
(* which never makes a message; otherwise the bytes are those of the       *)
(* messages still to be decoded, as long as none has gone astray.          *)
InStep ==
    ~broken /\ ~Strayed =>
        /\ Len(received) <= Len(sent)
        /\ IF CutBefore THEN Bytes # <<>> /\ Bytes[1] \div 64 = 3
           ELSE Framed(Bytes, sent, Len(received))

CodecInv ==
    /\ CodecTypeOK /\ received \in Seq(Decoded)
    /\ Framing
    /\ InStep

LEMMA BytesAreTyped ==
    ASSUME CodecTypeOK
    PROVE  /\ Bytes \in Seq(Byte) /\ Len(Bytes) = Len(buffer) + Len(wire)
           /\ Len(buffer) <= Len(Bytes) /\ \A k \in 1..Len(buffer) : Bytes[k] = buffer[k]
  BY DEF CodecTypeOK, Bytes

LEMMA CodecStart == ASSUME CodecInit PROVE CodecInv
<1> USE DEF CodecInit
<1>1. CodecTypeOK /\ received \in Seq(Decoded)
  <2>1. MaxMessages \in Nat
    BY CodecAssumption
  <2>2. Len(sent) <= MaxMessages
    BY <2>1
  <2>3. sent \in Seq(Messages) /\ wire \in Seq(Byte) /\ buffer \in Seq(Byte) /\ received \in Seq(Decoded)
    OBVIOUS
  <2>4. \A i \in DOMAIN received : received[i].is = "message"
    <3>1. DOMAIN received = 1..0
      OBVIOUS
    <3> QED BY <3>1
  <2>5. broken \in BOOLEAN
    BY Zenon
  <2> HIDE DEF CodecInit
  <2> QED BY <2>2, <2>3, <2>4, <2>5 DEF CodecTypeOK
<1>2. Framing
  <2>1. ~broken /\ DOMAIN received = 1..0
    OBVIOUS
  <2> QED BY <2>1 DEF Framing
<1>3. Framed(Bytes, sent, Len(received))
  <2>1. Bytes \in Seq(Byte) /\ Len(Bytes) = 0 /\ sent \in Seq(Messages) /\ Len(received) = Len(sent)
    BY DEF Bytes
  <2> QED BY <2>1, NothingFramed
<1> QED BY <1>1, <1>2, <1>3 DEF CodecInv, InStep, CutBefore

LEMMA SendStep ==
    ASSUME CodecInv, NEW m \in Messages, NEW bytes \in Seq(Byte),
           FrameAt(bytes, 0, Len(bytes), m), Send(m, bytes)
    PROVE  CodecInv'
<1> DEFINE r == Len(received)
<1>1. /\ wire = <<>> /\ ~broken /\ Len(sent) < MaxMessages /\ wire' = bytes
      /\ sent' = Append(sent, m) /\ UNCHANGED <<buffer, received, broken>>
  BY DEF Send
<1>2. CodecTypeOK /\ received \in Seq(Decoded) /\ Framing /\ InStep
  BY DEF CodecInv
<1>3. sent \in Seq(Messages) /\ buffer \in Seq(Byte) /\ MaxMessages \in Nat /\ r \in Nat
  BY <1>2, CodecAssumption DEF CodecTypeOK
<1>4. Bytes = buffer /\ Bytes' = buffer \o bytes /\ Bytes \in Seq(Byte)
  BY <1>1, <1>3 DEF Bytes
<1>5. /\ sent' \in Seq(Messages) /\ Len(sent') = Len(sent) + 1
      /\ DOMAIN sent = 1..Len(sent) /\ DOMAIN sent' = 1..(Len(sent) + 1)
      /\ \A i \in 1..Len(sent) : sent'[i] = sent[i]
  BY <1>1, <1>3
<1>6. CodecTypeOK' /\ received' \in Seq(Decoded)
  BY <1>1, <1>2, <1>3, <1>5 DEF CodecTypeOK
<1>7. Framing'
  <2>1. ASSUME NEW i \in DOMAIN received,
               \A j \in DOMAIN sent' : j <= i => ~Astray(sent'[j])
        PROVE  /\ i <= Len(sent') /\ sent'[i].form # "bare"
               /\ received[i].type = sent'[i].type
               /\ received[i].payload = Cut(sent'[i])
               /\ i < Len(received) => Whole(sent'[i])
    <3>1. \A j \in DOMAIN sent : j <= i => ~Astray(sent[j])
      BY <1>3, <1>5, <2>1
    <3>2. /\ i <= Len(sent) /\ sent[i].form # "bare"
          /\ received[i].type = sent[i].type
          /\ received[i].payload = Cut(sent[i])
          /\ i < Len(received) => Whole(sent[i])
      BY <1>2, <3>1 DEF Framing
    <3>3. i \in 1..Len(sent) /\ i <= Len(sent')
      BY <1>2, <1>3, <1>5, <3>2
    <3>4. sent'[i] = sent[i]
      BY <1>5, <3>3
    <3> QED BY <3>2, <3>3, <3>4
  <2> QED BY <1>1, <2>1 DEF Framing
<1>8. InStep'
  <2>1. ASSUME ~Strayed' PROVE ~Strayed
    <3>1. \A j \in DOMAIN sent : j \in DOMAIN sent' /\ sent'[j] = sent[j]
      BY <1>3, <1>5
    <3> QED BY <1>1, <2>1, <3>1 DEF Strayed
  <2>2. ASSUME ~Strayed
        PROVE  /\ r <= Len(sent')
               /\ IF CutBefore' THEN Bytes' # <<>> /\ Bytes'[1] \div 64 = 3
                  ELSE Framed(Bytes', sent', r)
    <3>1. r <= Len(sent) /\ r <= Len(sent')
      BY <1>1, <1>2, <1>3, <1>5, <2>2 DEF InStep
    <3>2. received # <<>> => r \in 1..Len(sent) /\ sent'[r] = sent[r]
      BY <1>2, <1>3, <1>5, <3>1
    <3>3. CutBefore' <=> CutBefore
      BY <1>1, <3>2 DEF CutBefore
    <3>4. CASE CutBefore
      <4>1. Bytes # <<>> /\ Bytes[1] \div 64 = 3
        BY <1>1, <1>2, <2>2, <3>4 DEF InStep
      <4>2. Bytes' # <<>> /\ Bytes'[1] = Bytes[1]
        BY <1>3, <1>4, <4>1
      <4> QED BY <3>1, <3>3, <3>4, <4>1, <4>2
    <3>5. CASE ~CutBefore
      <4>1. Framed(Bytes, sent, r) /\ r \in 0..Len(sent)
        BY <1>1, <1>2, <1>3, <2>2, <3>1, <3>5 DEF InStep
      <4>2. Framed(Bytes \o bytes, Append(sent, m), r)
        BY <1>3, <1>4, <4>1, FramedSend
      <4> QED BY <1>1, <1>4, <3>1, <3>3, <3>5, <4>2
    <3> QED BY <3>4, <3>5
  <2>3. r' = r
    BY <1>1
  <2> QED BY <2>1, <2>2, <2>3 DEF InStep
<1> QED BY <1>6, <1>7, <1>8 DEF CodecInv

LEMMA DeliverStep == ASSUME CodecInv, Deliver PROVE CodecInv'
<1>1. /\ wire # <<>> /\ buffer' = Append(buffer, Head(wire)) /\ wire' = Tail(wire)
      /\ UNCHANGED <<sent, received, broken>>
  BY DEF Deliver
<1>2. CodecTypeOK /\ received \in Seq(Decoded) /\ Framing /\ InStep
  BY DEF CodecInv
<1>3. wire \in Seq(Byte) /\ buffer \in Seq(Byte)
  BY <1>2 DEF CodecTypeOK
<1>4. Head(wire) \in Byte /\ Tail(wire) \in Seq(Byte) /\ wire = <<Head(wire)>> \o Tail(wire)
  BY <1>1, <1>3
<1>5. Bytes' = Bytes
  <2>1. /\ Bytes' = Append(buffer, Head(wire)) \o Tail(wire)
        /\ Bytes = buffer \o wire
    BY <1>1 DEF Bytes
  <2> QED BY <1>1, <1>3, <1>4, <2>1
<1>6. CodecTypeOK'
  BY <1>1, <1>2, <1>3, <1>4 DEF CodecTypeOK
<1>7. Framing' /\ InStep'
  BY <1>1, <1>2, <1>5 DEF Framing, InStep, CutBefore, Strayed
<1> QED BY <1>1, <1>2, <1>6, <1>7 DEF CodecInv

(* y is x without its first z bytes. *)
IsRest(y, x, z) ==
    /\ y \in Seq(Byte) /\ Len(y) = Len(x) - z
    /\ \A k \in 1..Len(y) : y[k] = x[z + k]

LEMMA Dropped ==
    ASSUME NEW s \in Seq(Byte), NEW t \in Seq(Byte), NEW z \in Nat, z <= Len(s),
           NEW left, left = SubSeq(s, z + 1, Len(s)),
           NEW x, IsJoined(x, s, t), NEW y, IsJoined(y, left, t)
    PROVE  IsRest(y, x, z)
<1>1. left \in Seq(Byte) /\ Len(left) = Len(s) - z /\ \A k \in 1..Len(left) : left[k] = s[z + k]
  OBVIOUS
<1>2. left \in Seq(Byte)
  BY <1>1
<1>3. /\ y \in Seq(Byte) /\ Len(y) = Len(left) + Len(t)
      /\ \A k \in 1..Len(left) : y[k] = left[k]
      /\ \A k \in 1..Len(t) : y[Len(left) + k] = t[k]
  BY DEF IsJoined
<1>4. /\ Len(x) = Len(s) + Len(t)
      /\ \A k \in 1..Len(s) : x[k] = s[k]
      /\ \A k \in 1..Len(t) : x[Len(s) + k] = t[k]
  BY DEF IsJoined
<1>5. Len(y) = Len(x) - z
  BY <1>1, <1>3, <1>4
<1>6. ASSUME NEW k \in 1..Len(y) PROVE y[k] = x[z + k]
  <2>1. CASE k <= Len(left)
    <3>1. k \in 1..Len(left) /\ z + k \in 1..Len(s)
      BY <1>1, <1>3, <2>1
    <3> QED BY <1>1, <1>3, <1>4, <3>1
  <2>2. CASE k > Len(left)
    <3>1. PICK i \in 1..Len(t) : k = Len(left) + i
      <4>1. k - Len(left) \in 1..Len(t) /\ k = Len(left) + (k - Len(left))
        BY <1>2, <1>3, <2>2
      <4> QED BY <4>1
    <3>2. y[k] = t[i]
      BY <1>3, <3>1
    <3>3. z + k = Len(s) + i
      BY <1>1, <3>1
    <3> QED BY <1>4, <3>2, <3>3
  <2>3. k <= Len(left) \/ k > Len(left)
    BY <1>2
  <2> QED BY <2>1, <2>2, <2>3
<1> QED BY <1>3, <1>5, <1>6 DEF IsRest

(* An error tells of a message that breaks the decoder.                    *)
Broken(r) ==
    \E j \in DOMAIN sent :
      \/ j <= r + 1 /\ Astray(sent[j])
      \/ j = r /\ ~Fits(sent[j])
      \/ j = r + 1 /\ sent[j].form = "bare"

LEMMA BreakStep ==
    ASSUME CodecInv, Receive, Decode(buffer) = Invalid, Broken(Len(received))
    PROVE  CodecInv'
<1>1. broken' = TRUE /\ received' = received /\ buffer' = <<>> /\ UNCHANGED <<sent, wire>>
  BY DEF Receive
<1>2. CodecTypeOK /\ received \in Seq(Decoded) /\ Framing
  BY DEF CodecInv
<1>3. CodecTypeOK'
  BY <1>1, <1>2 DEF CodecTypeOK
<1>4. Framing'
  <2>1. \E j \in DOMAIN sent :
          \/ j <= Len(received) + 1 /\ Astray(sent[j])
          \/ j = Len(received) /\ ~Fits(sent[j])
          \/ j = Len(received) + 1 /\ sent[j].form = "bare"
    BY DEF Broken
  <2> QED BY <1>1, <1>2, <2>1 DEF Framing
<1> QED BY <1>1, <1>2, <1>3, <1>4 DEF CodecInv, InStep

(* What a message taken from the buffer leaves, whatever it is.            *)
LEMMA TakeStep ==
    ASSUME CodecInv, Receive, Decode(buffer) # Invalid
    PROVE  LET r == Len(received)
               chunk == Decode(buffer)
           IN  /\ CodecTypeOK' /\ received' \in Seq(Decoded)
               /\ r \in Nat /\ Len(received') = r + 1 /\ received' # <<>>
               /\ received'[r + 1] = chunk /\ \A i \in 1..r : received'[i] = received[i]
               /\ DOMAIN received' = 1..(r + 1) /\ DOMAIN received = 1..r
               /\ chunk.size \in Nat /\ IsRest(Bytes', Bytes, chunk.size)
               /\ sent' = sent /\ broken' = FALSE
<1> DEFINE r == Len(received)
           chunk == Decode(buffer)
<1>1. /\ buffer # <<>> /\ ~broken /\ chunk # More /\ broken' = FALSE
      /\ received' = Append(received, chunk)
      /\ buffer' = SubSeq(buffer, chunk.size + 1, Len(buffer))
      /\ UNCHANGED <<sent, wire>>
  BY DEF Receive
<1>2. CodecTypeOK /\ received \in Seq(Decoded)
  BY DEF CodecInv
<1>3. sent \in Seq(Messages) /\ buffer \in Seq(Byte) /\ wire \in Seq(Byte)
  BY <1>2 DEF CodecTypeOK
<1>4. chunk \in Decoded /\ chunk.size \in Nat /\ chunk.size <= Len(buffer)
  BY <1>1, <1>3, DecodeTyped
<1> HIDE DEF chunk
<1>5. /\ received' \in Seq(Decoded) /\ r \in Nat /\ Len(received') = r + 1 /\ received' # <<>>
      /\ received'[r + 1] = chunk /\ \A i \in 1..r : received'[i] = received[i]
      /\ DOMAIN received' = 1..(r + 1) /\ DOMAIN received = 1..r
  BY <1>1, <1>2, <1>4
<1> DEFINE z == chunk.size
           left == SubSeq(buffer, z + 1, Len(buffer))
<1>6. z \in Nat /\ z <= Len(buffer) /\ left = SubSeq(buffer, z + 1, Len(buffer)) /\ buffer' = left
  BY <1>1, <1>4
<1> HIDE DEF z
<1>7. left \in Seq(Byte)
  BY <1>3, <1>6
<1> HIDE DEF left
<1>8. CodecTypeOK'
  <2>1. \A i \in DOMAIN received' : received'[i] \in Decoded
    BY <1>5
  <2>2. \A d \in Decoded : d.is = "message"
    BY DEF Decoded
  <2> QED BY <1>1, <1>2, <1>6, <1>7, <2>1, <2>2 DEF CodecTypeOK
<1>9. IsRest(Bytes', Bytes, z)
  <2>1. Bytes = buffer \o wire /\ Bytes' = left \o wire
    BY <1>1, <1>6 DEF Bytes
  <2>2. IsJoined(Bytes, buffer, wire)
    BY <1>3, <2>1, JoinedBytes
  <2>3. IsJoined(Bytes', left, wire)
    BY <1>3, <1>7, <2>1, JoinedBytes
  <2> QED BY <1>3, <1>6, <2>2, <2>3, Dropped
<1>10. sent' = sent /\ broken' = FALSE
  BY <1>1
<1> QED BY <1>4, <1>5, <1>8, <1>9, <1>10 DEF chunk, z

(* One chunk less; or, after one that was cut, its rest in front.          *)
LEMMA ReceiveStep == ASSUME CodecInv, Receive PROVE CodecInv'
<1> DEFINE r == Len(received)
           chunk == Decode(buffer)
           m == sent[r + 1]
<1>1. buffer # <<>> /\ ~broken /\ chunk # More
  BY DEF Receive
<1>2. CodecTypeOK /\ received \in Seq(Decoded) /\ Framing /\ InStep
  BY DEF CodecInv
<1>3. /\ sent \in Seq(Messages) /\ buffer \in Seq(Byte) /\ wire \in Seq(Byte)
      /\ r \in Nat /\ DOMAIN sent = 1..Len(sent)
      /\ received # <<>> => r > 0
  BY <1>2 DEF CodecTypeOK
<1>4. /\ Bytes \in Seq(Byte) /\ Len(Bytes) = Len(buffer) + Len(wire)
      /\ Len(buffer) <= Len(Bytes) /\ \A k \in 1..Len(buffer) : Bytes[k] = buffer[k]
      /\ Len(buffer) > 0 /\ Len(Bytes) > 0 /\ buffer[1] = Bytes[1]
  BY <1>1, <1>2, <1>3, BytesAreTyped
<1> HIDE DEF chunk
<1>5. ASSUME chunk # Invalid, ~Strayed, NEW i \in DOMAIN received
      PROVE  /\ i <= Len(sent) /\ sent[i].form # "bare"
             /\ received[i].type = sent[i].type
             /\ received[i].payload = Cut(sent[i])
             /\ i < r => Whole(sent[i])
  <2>1. i <= r /\ i \in Nat /\ r \in Nat
    BY <1>2
  <2>2. \A j \in DOMAIN sent : j <= i => ~Astray(sent[j])
    BY <1>3, <1>5, <2>1 DEF Strayed
  <2> QED BY <1>2, <2>2 DEF Framing
<1>6. CASE Strayed
  <2>1. PICK j \in DOMAIN sent : j <= r /\ Astray(sent[j])
    BY <1>6 DEF Strayed
  <2>2. CASE chunk = Invalid
    <3>1. Broken(r)
      <4>1. j <= r + 1
        BY <1>3, <2>1
      <4> QED BY <2>1, <4>1 DEF Broken
    <3> QED BY <2>2, <3>1, BreakStep DEF chunk
  <2>3. CASE chunk # Invalid
    <3>1. /\ CodecTypeOK' /\ received' \in Seq(Decoded) /\ Len(received') = r + 1
          /\ \A i \in 1..r : received'[i] = received[i]
          /\ DOMAIN received' = 1..(r + 1) /\ DOMAIN received = 1..r
          /\ sent' = sent /\ broken' = FALSE
      BY <2>3, TakeStep DEF chunk
    <3>2. ASSUME NEW i \in 1..(r + 1), \A k \in DOMAIN sent : k <= i => ~Astray(sent[k])
          PROVE  /\ i <= Len(sent) /\ sent[i].form # "bare"
                 /\ received'[i].type = sent[i].type
                 /\ received'[i].payload = Cut(sent[i])
                 /\ i < r + 1 => Whole(sent[i])
      <4>1. i \in 1..r /\ i < r
        BY <1>3, <2>1, <3>2
      <4> QED BY <1>2, <3>1, <3>2, <4>1 DEF Framing
    <3>3. Framing'
      BY <3>1, <3>2 DEF Framing
    <3>4. Strayed'
      <4>1. j <= r + 1
        BY <1>3, <2>1
      <4> QED BY <2>1, <3>1, <4>1 DEF Strayed
    <3> QED BY <3>1, <3>3, <3>4 DEF CodecInv, InStep
  <2> QED BY <2>2, <2>3
<1>7. CASE ~Strayed /\ CutBefore
  <2>1. r <= Len(sent) /\ Bytes[1] \div 64 = 3
    BY <1>1, <1>2, <1>7 DEF InStep
  <2>2. chunk = Invalid
    BY <1>1, <1>3, <1>4, <2>1, DecodeStuck DEF chunk
  <2>3. Broken(r)
    <3>1. r \in DOMAIN sent /\ ~Fits(sent[r])
      BY <1>3, <1>7, <2>1 DEF CutBefore
    <3> QED BY <3>1 DEF Broken
  <2> QED BY <2>2, <2>3, BreakStep DEF chunk
<1>8. CASE ~Strayed /\ ~CutBefore
  <2>1. Framed(Bytes, sent, r) /\ r \in 0..Len(sent)
    BY <1>1, <1>2, <1>3, <1>8 DEF InStep
  <2>2. r < Len(sent)
    BY <1>3, <1>4, <2>1, FirstFrame
  <2>3. PICK t \in 1..Len(Bytes) : /\ FrameAt(Bytes, 0, t, m)
                                  /\ Framed(SubSeq(Bytes, t + 1, Len(Bytes)), sent, r + 1)
    BY <1>3, <1>4, <2>1, FirstFrame
  <2>4. m \in Messages /\ r + 1 \in DOMAIN sent
    BY <1>3, <2>2
  <2>5. CASE chunk = Invalid /\ (Astray(m) \/ m.form = "bare")
    <3>1. Broken(r)
      BY <1>3, <2>4, <2>5 DEF Broken
    <3> QED BY <2>5, <3>1, BreakStep DEF chunk
  <2>6. CASE chunk # Invalid /\ Astray(m)
    <3>1. /\ CodecTypeOK' /\ received' \in Seq(Decoded) /\ Len(received') = r + 1
          /\ \A i \in 1..r : received'[i] = received[i]
          /\ DOMAIN received' = 1..(r + 1) /\ DOMAIN received = 1..r
          /\ sent' = sent /\ broken' = FALSE
      BY <2>6, TakeStep DEF chunk
    <3>2. Strayed'
      BY <1>3, <2>4, <2>6, <3>1 DEF Strayed
    <3>3. ASSUME NEW i \in 1..(r + 1), \A k \in DOMAIN sent : k <= i => ~Astray(sent[k])
          PROVE  /\ i <= Len(sent) /\ sent[i].form # "bare"
                 /\ received'[i].type = sent[i].type
                 /\ received'[i].payload = Cut(sent[i])
                 /\ i < r + 1 => Whole(sent[i])
      <4>1. i \in 1..r
        BY <1>3, <2>4, <2>6, <3>3
      <4>2. i < r => Whole(sent[i])
        BY <1>5, <1>8, <2>6, <3>1, <4>1
      <4>3. i = r => Whole(sent[i])
        BY <1>5, <1>8, <2>6, <3>1, <4>1 DEF CutBefore, Whole
      <4>4. i < r \/ i = r
        BY <1>3, <4>1
      <4> QED BY <1>5, <1>8, <2>6, <3>1, <4>1, <4>2, <4>3, <4>4
    <3>4. Framing'
      BY <3>1, <3>3 DEF Framing
    <3> QED BY <3>1, <3>2, <3>4 DEF CodecInv, InStep
  <2>7. CASE ~Astray(m) /\ m.form = "bare"
    <3>1. Bytes[0 + 1] \div 64 \in {2, 3}
      BY <2>3, <2>7 DEF FrameAt
    <3>2. chunk = Invalid
      BY <1>1, <1>3, <1>4, <3>1, DecodeStuck DEF chunk
    <3> QED BY <2>5, <2>7, <3>2
  <2>8. CASE ~Astray(m) /\ m.form # "bare"
    <3> HIDE DEF m
    <3>1. ChunkAt(Bytes, 0, t, m)
      BY <2>3, <2>8 DEF FrameAt
    <3>2. /\ chunk \in Decoded
          /\ chunk.is = "message" /\ chunk.type = m.type /\ chunk.payload = Cut(m)
          /\ chunk.size \in Nat /\ chunk.size <= Len(buffer)
          /\ Fits(m) => chunk.size = t
          /\ ~Fits(m) => chunk.size < t /\ Bytes[chunk.size + 1] \div 64 = 3
      <4>1. t \in Nat /\ t <= Len(Bytes)
        BY <1>4
      <4> QED BY <1>1, <1>3, <1>4, <2>4, <2>8, <3>1, <4>1, DecodeFrame DEF chunk
    <3>3. chunk # Invalid
      BY <3>2 DEF Invalid
    <3>4. /\ CodecTypeOK' /\ received' \in Seq(Decoded) /\ Len(received') = r + 1
          /\ received'[r + 1] = chunk /\ \A i \in 1..r : received'[i] = received[i]
          /\ DOMAIN received' = 1..(r + 1) /\ DOMAIN received = 1..r /\ received' # <<>>
          /\ IsRest(Bytes', Bytes, chunk.size) /\ sent' = sent /\ broken' = FALSE
      BY <3>3, TakeStep DEF chunk
    <3>5. ASSUME NEW i \in 1..(r + 1)
          PROVE  /\ i <= Len(sent) /\ sent[i].form # "bare"
                 /\ received'[i].type = sent[i].type
                 /\ received'[i].payload = Cut(sent[i])
                 /\ i < r + 1 => Whole(sent[i])
      <4>1. CASE i = r + 1
        <5>1. i <= Len(sent) /\ ~(i < r + 1)
          BY <1>3, <2>2, <4>1
        <5>2. sent[i] = m
          BY <4>1 DEF m
        <5> QED BY <2>8, <3>2, <3>4, <4>1, <5>1, <5>2
      <4>2. CASE i # r + 1
        <5>1. i \in 1..r
          BY <1>3, <4>2
        <5>2. i < r => Whole(sent[i])
          BY <1>5, <1>8, <3>3, <3>4, <5>1
        <5>3. i = r => Whole(sent[i])
          BY <1>5, <1>8, <3>3, <3>4, <5>1 DEF CutBefore, Whole
        <5>4. i < r \/ i = r
          BY <1>3, <5>1
        <5> QED BY <1>5, <1>8, <3>3, <3>4, <5>1, <5>2, <5>3, <5>4
      <4> QED BY <4>1, <4>2
    <3>6. Framing'
      BY <3>4, <3>5 DEF Framing
    <3> DEFINE z == chunk.size
    <3>7. /\ Bytes' \in Seq(Byte) /\ Len(Bytes') = Len(Bytes) - z
          /\ \A k \in 1..Len(Bytes') : Bytes'[k] = Bytes[z + k]
          /\ z \in Nat /\ z <= Len(buffer)
      BY <3>2, <3>4 DEF IsRest
    <3> HIDE DEF z
    <3>8. (CutBefore' <=> ~Fits(m)) /\ Len(received') <= Len(sent')
      BY <1>3, <2>2, <3>4 DEF CutBefore, m
    <3>9. CASE Fits(m)
      <4>1. z = t
        BY <3>2, <3>9 DEF z
      <4>2. Bytes' = SubSeq(Bytes, t + 1, Len(Bytes))
        <5> DEFINE rest == SubSeq(Bytes, t + 1, Len(Bytes))
        <5>1. rest \in Seq(Byte) /\ Len(rest) = Len(Bytes) - t
              /\ \A k \in 1..Len(rest) : rest[k] = Bytes[t + k]
          BY <1>4
        <5> HIDE DEF rest
        <5>2. Bytes' = rest
          BY <3>7, <4>1, <5>1
        <5> QED BY <5>2 DEF rest
      <4>3. Framed(Bytes', sent', Len(received'))
        BY <2>3, <3>4, <4>2
      <4> QED BY <3>4, <3>6, <3>8, <3>9, <4>3 DEF CodecInv, InStep
    <3>10. CASE ~Fits(m)
      <4>1. z < t /\ Bytes[z + 1] \div 64 = 3
        BY <3>2, <3>10 DEF z
      <4>2. 1 \in 1..Len(Bytes')
        BY <1>4, <3>7, <4>1
      <4>3. Bytes'[1] = Bytes[z + 1] /\ Bytes' # <<>>
        BY <3>7, <4>2
      <4> QED BY <3>4, <3>6, <3>8, <3>10, <4>1, <4>3 DEF CodecInv, InStep
    <3> QED BY <3>9, <3>10
  <2> QED BY <2>5, <2>6, <2>7, <2>8
<1> QED BY <1>6, <1>7, <1>8

(* The buffer and the wire hold the messages not decoded yet, or a rest.   *)
THEOREM CodecIsFramed == CodecSpec => []CodecInv
<1>1. ASSUME CodecInv, [CodecNext]_codecVars PROVE CodecInv'
  <2>1. ASSUME NEW m \in Messages, SendEncoded(m) PROVE CodecInv'
    BY <1>1, <2>1, EncodeIsFrame, SendStep DEF SendEncoded
  <2>2. ASSUME NEW m \in Messages, SendHeaded(m) PROVE CodecInv'
    <3>1. PICK fmt \in 0..1 : \E basic \in Basic(fmt) : Send(m, Chunks(m, fmt, basic))
      BY <2>2 DEF SendHeaded, SendChunks
    <3>2. PICK basic \in Basic(fmt) : Send(m, Chunks(m, fmt, basic))
      BY <3>1
    <3> QED BY <1>1, <2>2, <3>2, ChunksAreFrame, SendStep DEF SendHeaded
  <2>6. ASSUME NEW m \in Messages, SendBare(m) PROVE CodecInv'
    <3>1. PICK fmt \in 2..3 : \E basic \in Basic(fmt) : Send(m, Chunks(m, fmt, basic))
      BY <2>6 DEF SendBare, SendChunks
    <3>2. PICK basic \in Basic(fmt) : Send(m, Chunks(m, fmt, basic))
      BY <3>1
    <3> QED BY <1>1, <2>6, <3>2, BareIsFrame, SendStep DEF SendBare
  <2>3. CASE Deliver
    BY <1>1, <2>3, DeliverStep
  <2>4. CASE Receive
    BY <1>1, <2>4, ReceiveStep
  <2>5. CASE UNCHANGED codecVars
    BY <1>1, <2>5 DEF codecVars, CodecInv, CodecTypeOK, Framing, InStep, CutBefore, Strayed,
                            Bytes
  <2> QED BY <1>1, <2>1, <2>2, <2>3, <2>4, <2>5, <2>6 DEF CodecNext
<1> QED BY CodecStart, <1>1, PTL DEF CodecSpec

(* Every variable of the codec keeps its type: what is decoded without an  *)
(* error is a message.                                                     *)
THEOREM CodecTypeCorrect == CodecSpec => []CodecTypeOK
  BY CodecIsFramed, PTL DEF CodecInv

(* Framing: the messages decoded are those sent, in order, until one is    *)
(* cut, says no type or goes astray.                                       *)
THEOREM FramesAreKept == CodecSpec => []Framing
  BY CodecIsFramed, PTL DEF CodecInv
=============================================================================
