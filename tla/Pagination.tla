----------------------------- MODULE Pagination -----------------------------
(* The lists of the API: the deployments of an owner, and the revisions,     *)
(* jobs, events and tasks of a deployment (repositories/filters).  A page is *)
(* found by a cursor, the sort value and _id of a document seen before, and  *)
(* not by an offset, so that documents may come and go between two pages.    *)
(* Documents are records [at, id, name, status, market, gpu]: the sort       *)
(* value, the _id, and what the filters look at.  The owner's and the        *)
(* deployment's base filter and the encoding of the cursor are left out.     *)
EXTENDS Naturals, FiniteSets, Sequences, SequencesExt

Null == [direction |-> "none"]
Cursor(doc, direction) == [direction |-> direction, doc |-> doc]

------------------------------------------------------------------------------
(* filterUtils.ts *)

(* A filter constrains one key of the query: the set of documents it lets    *)
(* through.  An absent parameter gives no filter.                            *)
Unset == [key |-> "unset"]
Filter(key, docs) == [key |-> key, docs |-> docs]

PartialMatch(docs, search) ==
  IF search = "" THEN Unset ELSE Filter("$or", {d \in docs : d.name = search})
(* One value, several, or for a market "none", which is null in a document.  *)
OneOf(docs, field, values) ==
  IF values = {} THEN Unset ELSE Filter(field, {d \in docs : d[field] \in values})
Unbounded == 0
DateRange(docs, after, before) ==
  IF after = Unbounded /\ before = Unbounded THEN Unset
  ELSE Filter("at", {d \in docs : d.at >= after /\ (before = Unbounded \/ d.at <= before)})
(* "none" stands for a document with nothing at the path, and may be asked   *)
(* for beside real values.                                                   *)
NestedMultiValue(docs, values) ==
  LET real    == values \ {"none"}
      present == {d \in docs : d.gpu \intersect real # {}}
      absent  == {d \in docs : d.gpu = {}}
  IN CASE values = {} -> Unset
       [] values # {} /\ "none" \notin values -> Filter("requirements.name", present)
       [] values = {"none"} -> Filter("requirements.name", absent)
       [] OTHER -> Filter("$or", present \union absent)

(* combineFilters: Object.assign, the last filter of a key takes its place.  *)
Combined(docs, filters) ==
  {d \in docs : \A i \in DOMAIN filters :
     filters[i] # Unset /\ (\A j \in i + 1..Len(filters) : filters[j].key # filters[i].key)
       => d \in filters[i].docs}

(* GET /deployments, in the order of deploymentsHandler's filters.           *)
Listed(docs, q) ==
  Combined(docs, <<PartialMatch(docs, q.search), OneOf(docs, "status", q.status),
                   OneOf(docs, "market", q.market), NestedMultiValue(docs, q.gpu),
                   DateRange(docs, q.after, q.before)>>)

------------------------------------------------------------------------------
(* generateKeysetQuery.ts, executeKeysetPagination.ts, buildPaginationMeta.ts *)

Less(a, b) == a.at < b.at \/ (a.at = b.at /\ a.id < b.id)
Precedes(order, a, b) == IF order = "asc" THEN Less(a, b) ELSE Less(b, a)

(* The documents on the cursor's side of it, by the sort value and then by   *)
(* _id: two documents may share a sort value.                                *)
Beyond(docs, cursor, order) ==
  CASE cursor = Null -> docs
    [] cursor.direction = "next" -> {d \in docs : Precedes(order, cursor.doc, d)}
    [] cursor.direction = "prev" -> {d \in docs : Precedes(order, d, cursor.doc)}

(* One document more than the page holds, the nearest to the cursor, put     *)
(* back in the order of the list when they were fetched backwards.           *)
Fetched(docs, cursor, limit, order) ==
  LET found == SetToSortSeq(Beyond(docs, cursor, order), LAMBDA a, b : Precedes(order, a, b))
      size  == Min({limit + 1, Len(found)})
  IN IF cursor.direction = "prev" THEN SubSeq(found, Len(found) - size + 1, Len(found))
     ELSE SubSeq(found, 1, size)

(* The page is cut at its end, whichever way it was fetched.                 *)
Page(docs, cursor, limit, order) ==
  LET found == Fetched(docs, cursor, limit, order)
      more  == Len(found) > limit
      items == SubSeq(found, 1, Min({limit, Len(found)}))
      back  == cursor.direction = "prev"
      next  == IF items # <<>> /\ (back \/ more) THEN Cursor(Last(items), "next") ELSE Null
      prev  == IF items # <<>> /\ (IF back THEN more ELSE cursor # Null)
               THEN Cursor(Head(items), "prev") ELSE Null
  IN [items |-> items, cursor_next |-> next, cursor_prev |-> prev]

(* findPaginated: the filters, then a page of what they let through.         *)
FindPaginated(docs, filters, cursor, limit, order) ==
  Page(Combined(docs, filters), cursor, limit, order)

(* A client that follows cursor_next; the collection is `before` for its     *)
(* first page and `after` for the others.                                    *)
Walk(before, after, limit, order) ==
  LET pages == Cardinality(before \union after) + 1
      seen[n \in 1..pages] ==
        IF n = 1 THEN FindPaginated(before, <<>>, Null, limit, order)
        ELSE IF seen[n - 1].cursor_next = Null THEN [seen[n - 1] EXCEPT !.items = <<>>]
        ELSE FindPaginated(after, <<>>, seen[n - 1].cursor_next, limit, order)
  IN seen
=============================================================================
