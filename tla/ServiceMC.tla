------------------------------ MODULE ServiceMC ------------------------------
(***************************************************************************)
(* The parts of the service around the going live of a stream, for TLC:    *)
(* its viewers, its HLS segments, its WebRTC peers, its RTMP publishers    *)
(* and their codec, the accounts and the catalogue of streams.  They share *)
(* no variable: what a part needs of the life of the stream is in its own  *)
(* module, and the composition with StreamManager's tables is there.  So a *)
(* behaviour is one of one part, the subject, with the others at rest.     *)
(***************************************************************************)
EXTENDS Viewers, HlsServer, WebRtcServer, RtmpServer, RtmpCodec, Accounts, Catalog, TLC

CONSTANT Subjects       \* the parts to look at

VARIABLE subject

(* Nothing, a byte that could be a header, and more than a chunk holds.    *)
MCPayloads == {<<>>, <<2>>, <<192, 0, 9, 0, 0, 0>>}

allVars == <<vars, hlsVars, rtcVars, rtmpVars, codecVars, accountVars, catalogVars,
             subject>>

MCInit ==
    /\ Init /\ HlsInit /\ RtcInit /\ RtmpInit /\ CodecInit
    /\ AccountsInit /\ CatalogInit
    /\ subject \in Subjects
    \* A part at rest need not stand in each of its initial states.
    /\ subject = "hls" \/ ~tasks
    /\ subject = "rtmp" \/ keys = {}
    /\ subject = "catalog" \/ \A i \in Existing : rows[i].title = CHOOSE t \in Titles : TRUE

MCNext ==
    \/ /\ subject = "viewers" /\ Next
       /\ UNCHANGED <<hlsVars, rtcVars, rtmpVars, codecVars, accountVars, catalogVars,
                      subject>>
    \/ /\ subject = "hls" /\ HlsNext
       /\ UNCHANGED <<vars, rtcVars, rtmpVars, codecVars, accountVars, catalogVars,
                      subject>>
    \/ /\ subject = "webrtc" /\ RtcNext
       /\ UNCHANGED <<vars, hlsVars, rtmpVars, codecVars, accountVars, catalogVars,
                      subject>>
    \/ /\ subject = "rtmp" /\ RtmpNext
       /\ UNCHANGED <<vars, hlsVars, rtcVars, codecVars, accountVars, catalogVars,
                      subject>>
    \/ /\ subject = "codec" /\ CodecNext
       /\ UNCHANGED <<vars, hlsVars, rtcVars, rtmpVars, accountVars, catalogVars,
                      subject>>
    \/ /\ subject = "accounts" /\ AccountsNext
       /\ UNCHANGED <<vars, hlsVars, rtcVars, rtmpVars, codecVars, catalogVars,
                      subject>>
    \/ /\ subject = "catalog" /\ CatalogNext
       /\ UNCHANGED <<vars, hlsVars, rtcVars, rtmpVars, codecVars, accountVars,
                      subject>>

(* Requests are alike, and so are the addresses they come from.            *)
MCSymmetry == Permutations(Requests) \cup Permutations(Addresses)

MCSpec == MCInit /\ [][MCNext]_allVars

(* The fair actions of a part at rest are not enabled, so that each        *)
(* part's fairness speaks of the behaviours it is the subject of.          *)
MCFairSpec == MCSpec /\ Fairness /\ RtcFairness
-----------------------------------------------------------------------------
(* Every variable of every part has its type: what the handlers of         *)
(* viewers, segments, peers, accounts and rows leave is what they expect.  *)
TypesOK ==
    /\ TypeOK /\ HlsTypeOK /\ RtcTypeOK /\ RtmpTypeOK /\ CodecTypeOK
    /\ AccountsTypeOK /\ CatalogTypeOK
=============================================================================
