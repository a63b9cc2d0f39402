------------------------------- MODULE Catalog -------------------------------
(***************************************************************************)
(* src/api/streams.rs, src/api/mod.rs and the Stream part of               *)
(* src/database.rs: the rows of streams, as the API edits and lists them.  *)
(*                                                                         *)
(* update_stream reads the row, changes the fields asked for in its copy   *)
(* and writes all editable fields back; the columns that the stream        *)
(* manager writes, each by a statement of its own, are not among them.     *)
(* title and private stand for the editable fields (description, category, *)
(* recording and profiles go the same way), live, started and viewers for  *)
(* the manager's.  A request asks for one field: with several the same     *)
(* happens to each.  Ownership and the checks of form are left out.        *)
(*                                                                         *)
(* list_streams asks for one page of the live, public streams.  A reader   *)
(* walks from page one until a page is empty.  The offset is computed in   *)
(* u32 (Word = 2^32), which a walk can overrun only with Word rows.        *)
(***************************************************************************)
EXTENDS Naturals, Sequences, FiniteSets

CONSTANTS
    Ids,            \* streams
    Existing,       \* those with a row from before
    Editors,        \* update requests under way at one time
    Titles,
    MaxLimit,       \* the largest page: 100
    Word,           \* 2^32
    MaxWrites       \* bound: statements that write rows

ASSUME CatalogAssumption ==
    /\ IsFiniteSet(Ids) /\ Existing \subseteq Ids
    /\ MaxLimit \in Nat \ {0} /\ MaxWrites \in Nat /\ Word \in Nat
    /\ Cardinality(Ids) + MaxLimit <= Word      \* fewer than 2^32 - 100 rows

VARIABLES
    rows,           \* table streams: id -> row
    draft,          \* update_stream: the copy of the row and what is asked for
    walk,           \* a reader: limit, page, what it has got
    writes,
    known,          \* ids given out so far (UUIDs)
    outdated        \* history: editors with another update since their read

catalogVars == <<rows, draft, walk, writes, known, outdated>>

Flags == {"yes", "no"}
NoDraft == [id |-> "none"]
NoWalk == [limit |-> 0, page |-> 0, got |-> <<>>]

NewRow(title, private) ==
    [title |-> title, private |-> private, live |-> FALSE, started |-> 0, viewers |-> 0]

CatalogInit ==
    /\ rows \in [Existing -> {NewRow(title, "no") : title \in Titles}]
    /\ draft = [e \in Editors |-> NoDraft]
    /\ walk = NoWalk
    /\ writes = 0 /\ known = Existing /\ outdated = {}
-----------------------------------------------------------------------------
(* WriteWholeRow and OffsetFromZero are faulty variants of the definition  *)
(* that follows each; no action uses them.                                 *)
-----------------------------------------------------------------------------
(* A walk in which a row changes is given up: nothing is claimed for it.   *)
Write == /\ writes < MaxWrites
         /\ writes' = writes + 1
         /\ walk' = NoWalk

(* create_stream *)
CreateStream(i, title, private) ==
    /\ i \notin known
    /\ known' = known \cup {i}
    /\ Write
    /\ rows' = [j \in DOMAIN rows \cup {i} |->
                  IF j = i THEN NewRow(title, private) ELSE rows[j]]
    /\ UNCHANGED <<draft, outdated>>

(* The end of delete_stream; the stop before it is RowOffline. *)
DeleteStream(i) ==
    /\ i \in DOMAIN rows
    /\ Write
    /\ rows' = [j \in DOMAIN rows \ {i} |-> rows[j]]
    /\ UNCHANGED <<draft, known, outdated>>

(* start_streaming, stop_streaming and update_viewer_count.                *)
RowLive(i) ==
    /\ i \in DOMAIN rows
    /\ Write
    /\ rows' = [rows EXCEPT ![i].live = TRUE, ![i].started = writes + 1]
    /\ UNCHANGED <<draft, known, outdated>>

RowOffline(i) ==
    /\ i \in DOMAIN rows /\ rows[i].live
    /\ Write
    /\ rows' = [rows EXCEPT ![i].live = FALSE]
    /\ UNCHANGED <<draft, known, outdated>>

CountViewer(i) ==
    /\ i \in DOMAIN rows /\ rows[i].live
    /\ Write
    /\ rows' = [rows EXCEPT ![i].viewers = @ + 1]
    /\ UNCHANGED <<draft, known, outdated>>
-----------------------------------------------------------------------------
(* update_stream.                                                          *)

ReadForUpdate(e, i, field, value) ==
    /\ draft[e] = NoDraft /\ walk = NoWalk
    /\ i \in DOMAIN rows
    /\ draft' = [draft EXCEPT ![e] = [id |-> i, copy |-> rows[i],
                                      field |-> field, value |-> value]]
    /\ outdated' = outdated \ {e}
    /\ UNCHANGED <<rows, walk, writes, known>>

(* The copy with what was asked for. *)
Edited(e) == [draft[e].copy EXCEPT ![draft[e].field] = draft[e].value]

Behind(e) == {d \in Editors \ {e} : draft[d] # NoDraft /\ draft[d].id = draft[e].id}

WriteWholeRow(e) ==
    LET i == draft[e].id
    IN  /\ draft[e] # NoDraft
        /\ Write
        /\ rows' = IF i \in DOMAIN rows
                   THEN [rows EXCEPT ![i] = Edited(e)]
                   ELSE rows
        /\ draft' = [draft EXCEPT ![e] = NoDraft]
        /\ UNCHANGED known
        /\ outdated' = (outdated \cup Behind(e)) \ {e}

(* Of no effect, and a success, if the row is gone. *)
WriteUpdate(e) ==
    LET i == draft[e].id
    IN  /\ draft[e] # NoDraft
        /\ Write
        /\ rows' = IF i \in DOMAIN rows
                   THEN [rows EXCEPT ![i].title = Edited(e).title, ![i].private = Edited(e).private]
                   ELSE rows
        /\ draft' = [draft EXCEPT ![e] = NoDraft]
        /\ UNCHANGED known
        /\ outdated' = (outdated \cup Behind(e)) \ {e}

(* Not the owner, a bad title, or the database does not answer. *)
UpdateFails(e) ==
    /\ draft[e] # NoDraft
    /\ draft' = [draft EXCEPT ![e] = NoDraft]
    /\ outdated' = outdated \ {e}
    /\ UNCHANGED <<rows, walk, writes, known>>
-----------------------------------------------------------------------------
(* list_streams and PaginationParams.                                      *)

(* find_live_streams: viewer_count DESC, started_at DESC.                  *)
LivePublic == {i \in DOMAIN rows : rows[i].live /\ rows[i].private = "no"}

Before(i, j) == \/ rows[i].viewers > rows[j].viewers
                \/ /\ rows[i].viewers = rows[j].viewers
                   /\ rows[i].started > rows[j].started

Order ==
    LET count == Cardinality(LivePublic)
    IN  CHOOSE s \in [1..count -> LivePublic] :
            \A m, n \in 1..count : m < n => Before(s[m], s[n])

Least(m, n) == IF m < n THEN m ELSE n
Limit(limit) == IF limit = 0 THEN 1 ELSE Least(limit, MaxLimit)

OffsetFromZero(page, limit) == (page * limit) % Word

Offset(page, limit) == ((page - 1) * limit) % Word

(* LIMIT and OFFSET of the query. *)
Page(page, limit) ==
    LET from == Offset(page, limit)
    IN  SubSeq(Order, from + 1, Least(from + limit, Len(Order)))

(* Reads do not disturb each other: walks are taken without updates.       *)
StartWalk(limit) ==
    /\ walk = NoWalk /\ \A e \in Editors : draft[e] = NoDraft
    /\ walk' = [NoWalk EXCEPT !.limit = Limit(limit)]
    /\ UNCHANGED <<rows, draft, writes, known, outdated>>

NextPage ==
    LET items == Page(walk.page + 1, walk.limit)
    IN  /\ walk # NoWalk
        /\ items # <<>>
        /\ walk' = [walk EXCEPT !.page = @ + 1, !.got = @ \o items]
        /\ UNCHANGED <<rows, draft, writes, known, outdated>>

(* The last page was empty. *)
EndWalk ==
    /\ walk # NoWalk
    /\ Page(walk.page + 1, walk.limit) = <<>>
    /\ walk' = NoWalk
    /\ UNCHANGED <<rows, draft, writes, known, outdated>>
-----------------------------------------------------------------------------
CatalogNext ==
    \/ \E i \in Ids :
         \/ \E title \in Titles, private \in Flags : CreateStream(i, title, private)
         \/ DeleteStream(i) \/ RowLive(i) \/ RowOffline(i) \/ CountViewer(i)
         \/ \E e \in Editors :
              \/ \E title \in Titles : ReadForUpdate(e, i, "title", title)
              \/ \E private \in Flags : ReadForUpdate(e, i, "private", private)
    \/ \E e \in Editors : WriteUpdate(e) \/ UpdateFails(e)
    \/ \E limit \in 0..(MaxLimit + 1) : StartWalk(limit)
    \/ NextPage \/ EndWalk

CatalogSpec == CatalogInit /\ [][CatalogNext]_catalogVars
-----------------------------------------------------------------------------
(* Properties.                                                             *)

CatalogTypeOK ==
    /\ \A i \in DOMAIN rows :
         rows[i] \in [title : Titles, private : Flags, live : BOOLEAN,
                      started : 0..MaxWrites, viewers : 0..MaxWrites]
    /\ \A e \in Editors : draft[e] # NoDraft => draft[e].id \in Ids
    /\ walk.limit \in 0..MaxLimit /\ walk.page \in Nat /\ walk.got \in Seq(Ids)
    /\ DOMAIN rows \subseteq known /\ known \subseteq Ids /\ outdated \subseteq Editors
    /\ writes \in 0..MaxWrites

(* An update, however old its copy of the row, changes what it was asked   *)
(* to change and nothing else: it neither brings a stream back online nor  *)
(* undoes a viewer count, and takes an editable field back only if another *)
(* update wrote between its read and its write.                            *)
UpdatesKept ==
    [][\A e \in Editors :
         LET i == draft[e].id
         IN  draft[e] # NoDraft /\ draft'[e] = NoDraft /\ i \in DOMAIN rows =>
               /\ rows'[i] = [rows[i] EXCEPT !.title = rows'[i].title,
                                             !.private = rows'[i].private]
               /\ \A field \in {"title", "private"} :
                    rows'[i][field] # rows[i][field] =>
                      field = draft[e].field \/ e \in outdated]_catalogVars

(* A reader who walks the pages while no row changes gets the live public  *)
(* streams in order, none twice and none left out, whatever the limit.     *)
PagesTile ==
    walk # NoWalk =>
        walk.got = SubSeq(Order, 1, Least(walk.page * walk.limit, Len(Order)))
=============================================================================
