---------------------------- MODULE Service_proofs ----------------------------
(***************************************************************************)
(* The parts put together as ServiceMC does: each of them lives in a       *)
(* behaviour of MCSpec as its own specification has it, so that what is    *)
(* proved of a part holds in the composition.                              *)
(***************************************************************************)
EXTENDS ServiceMC, Viewers_proofs, Servers_proofs, RtmpServer_proofs, Api_proofs

(* At first every part is in one of its initial states.                    *)
LEMMA PartsBegin ==
    MCInit => /\ Init /\ HlsInit /\ RtcInit /\ RtmpInit /\ CodecInit
              /\ AccountsInit /\ CatalogInit
BY DEF MCInit

(* A step of the composition is a step of each part, or leaves it alone.   *)
LEMMA PartsStep ==
    [MCNext]_allVars =>
        /\ [Next]_vars /\ [HlsNext]_hlsVars /\ [RtcNext]_rtcVars /\ [RtmpNext]_rtmpVars
        /\ [CodecNext]_codecVars /\ [AccountsNext]_accountVars /\ [CatalogNext]_catalogVars
BY DEF MCNext, allVars

(* What the service does is, for each of its parts, a behaviour of the     *)
(* part's own specification.                                               *)
THEOREM PartsLiveAlone ==
    MCSpec => /\ Spec /\ HlsSpec /\ RtcSpec /\ RtmpSpec /\ CodecSpec
              /\ AccountsSpec /\ CatalogSpec
BY PartsBegin, PartsStep, PTL
   DEF MCSpec, Spec, HlsSpec, RtcSpec, RtmpSpec, CodecSpec, AccountsSpec, CatalogSpec

(* Every variable of every part keeps its type: what a handler leaves is   *)
(* what the others expect.                                                 *)
THEOREM TypesHold == MCSpec => []TypesOK
<1>1. MCSpec => /\ []TypeOK /\ []HlsTypeOK /\ []RtcTypeOK /\ []RtmpTypeOK /\ []CodecTypeOK
                /\ []AccountsTypeOK /\ []CatalogTypeOK
  BY PartsLiveAlone, TypeCorrect, HlsTypeCorrect, RtcTypeCorrect, RtmpTypeCorrect,
     CodecTypeCorrect, AccountsTypeCorrect, CatalogTypeCorrect, PTL
<1> QED BY <1>1, PTL DEF TypesOK

(* All that the handlers of the parts keep when their awaits interleave,   *)
(* fail and race with the tasks beside them, in the composition.           *)
THEOREM ServiceIsSafe ==
    MCSpec => /\ []CountsAgree /\ []CountsReal /\ []TrackedInGroup /\ MaximumKept
              /\ []PlaylistNumbered /\ []ListedOnDisk /\ []StopClearsPeers
              /\ []OnePublisher /\ []MediaAfterPublish /\ []Framing
              /\ []NamesUnique /\ []DisabledLockedOut /\ []PagesTile /\ UpdatesKept
BY PartsLiveAlone, CountsDoAgree, CountsAreReal, TrackedAreInGroup, MaximumIsKept,
   PlaylistIsNumbered, ListedAreOnDisk, StopsAreClean, PublishersAreAlone, MediaFollowPublish,
   FramesAreKept, NamesStayUnique, DisabledAreLockedOut, PagesDoTile, UpdatesAreKept, PTL
=============================================================================
