---------------------------- MODULE RevisionsMC ----------------------------
(* A small instance of Revisions for TLC, and the lists of Pagination over   *)
(* bounded collections: what is said of them has no state, so it is stated   *)
(* as assumptions, which TLC evaluates before it explores.                   *)
EXTENDS Revisions, Pagination, TLC

CONSTANTS k1, k2, r1, r2

Interchangeable == Permutations(Requests) \union Permutations(Keys)

------------------------------------------------------------------------------
(* Five documents in three instants, ties included. *)
At5 == <<1, 1, 2, 2, 3>>
Numbered(i) == [at |-> At5[i], id |-> i, name |-> "n", status |-> "s", market |-> "m", gpu |-> {}]
Collections == {{Numbered(i) : i \in ids} : ids \in SUBSET (1..5)}
Limits == 1..3
Orders == {"asc", "desc"}

(* However the collection changed after the first page was read, a client    *)
(* that follows cursor_next to its end meets the documents in order, none    *)
(* twice, and every one that was there throughout; and from each page it can *)
(* go back to the documents before it, when one page holds them              *)
(* (executeKeysetPagination).                                                *)
ASSUME WalksSeeEverything ==
  \A before, after \in Collections, limit \in Limits, order \in Orders :
    LET walk == Walk(before, after, limit, order)
        seen == FlattenSeq([n \in DOMAIN walk |-> walk[n].items])
    IN /\ \A i, j \in DOMAIN seen : i < j => Precedes(order, seen[i], seen[j])
       /\ before \intersect after \subseteq Range(seen)
       /\ \A n \in DOMAIN walk : walk[n].cursor_prev # Null =>
            LET here  == walk[n].cursor_prev
                prior == {d \in after : Precedes(order, d, here.doc)}
                back  == Page(after, here, limit, order)
            IN Cardinality(prior) <= limit => /\ Range(back.items) = prior
                                              /\ back.cursor_prev = Null

Fleet == [at : {1, 2}, id : {1}, name : {"a", "b"}, status : {"RUNNING", "STOPPED"},
          market : {"m", "none"}, gpu : SUBSET {"g1", "g2"}]
Queries == [search : {"", "a"}, status : SUBSET {"RUNNING", "STOPPED"}, market : SUBSET {"m", "none"},
            gpu : SUBSET {"none", "g1", "g2"}, after : {Unbounded, 2}, before : {Unbounded, 1}]

(* GET /deployments lists the deployments that meet every parameter given,   *)
(* unless the search and a choice of no GPU or some claim the same key.      *)
ASSUME FiltersAllApply ==
  \A q \in Queries :
    ~(q.search # "" /\ "none" \in q.gpu /\ q.gpu # {"none"}) =>
      Listed(Fleet, q) =
        {d \in Fleet : /\ q.search # "" => d.name = q.search
                       /\ q.status # {} => d.status \in q.status
                       /\ q.market # {} => d.market \in q.market
                       /\ q.gpu # {} => \/ d.gpu \intersect q.gpu # {}
                                        \/ "none" \in q.gpu /\ d.gpu = {}
                       /\ d.at >= q.after
                       /\ q.before # Unbounded => d.at <= q.before}
=============================================================================
