------------------------------ MODULE Paginator ------------------------------
(***************************************************************************)
(* The paginators of the Rust client (core/pagination.rs): AsyncPaginator, a *)
(* Stream that is polled, and SyncPaginator, an Iterator.  Both may also be  *)
(* asked for whole pages (next_page, collect_all), on the same cursor.       *)
(*                                                                         *)
(* A load is a request of the page the cursor names.  The stream keeps one   *)
(* it has started while its consumer waits, and also when its consumer gives *)
(* up waiting (a timeout, a select) and does something else.  The service is *)
(* external and its list does not change; a cursor stands for the page it    *)
(* names, an item for its page and its place.  The response kept for its     *)
(* status and its headers is left out.                                       *)
(*                                                                         *)
(* MutantX is a plausible slip in X; the specification never uses it.      *)
(***************************************************************************)
EXTENDS Naturals, Sequences

CONSTANT Lists            \* the lists the service may hold: the sizes of their pages

ASSUME ListAssumption == Lists \subseteq Seq(Nat) \ {<<>>}

VARIABLES
  kind,                   \* "async" or "sync"
  sizes,                  \* the list of the service
  queue,                  \* current_page: items that wait for the consumer
  cursor,                 \* current_cursor
  more,                   \* has_next_page
  load, ready,            \* loading_next: the page it loads (0: none), and
                          \* whether the service has answered
  consumer,               \* what the consumer is doing
  collected,              \* all_items of collect_all
  got,                    \* what the consumer has been given
  lost,                   \* history: items a failed collect_all has dropped
  order,                  \* history: has next_page overtaken other items
  since                   \* history: the first page next_page loaded while the
                          \* stream was loading it (none: past the list)

vars == <<kind, sizes, queue, cursor, more, load, ready, consumer, collected,
          got, lost, order, since>>

history == <<collected, lost, order, since>>

Elements(s) == {s[i] : i \in DOMAIN s}
Page(k) == [i \in 1..sizes[k] |-> <<k, i>>]

MutantLast(k) == k > Len(sizes)

Last(k) == k = Len(sizes)

Idle == consumer \in {"free", "ended"}

Init ==
  /\ kind \in {"async", "sync"}
  /\ sizes \in Lists
  /\ queue = <<>> /\ cursor = 1 /\ more = TRUE
  /\ load = 0 /\ ready = FALSE
  /\ consumer = "free"
  /\ collected = <<>> /\ got = <<>> /\ lost = {}
  /\ order = "kept" /\ since = Len(sizes) + 1

-----------------------------------------------------------------------------
(* What poll_next and next have in common.                                 *)

Advance(k) == cursor' = k + 1 /\ more' = ~Last(k)

MutantHandOut(k) ==
  /\ got' = Append(got, Head(Page(k)))
  /\ queue' = Page(k)
  /\ consumer' = "free"

(* The first item of a page is handed out and the others are kept.         *)
HandOut(k) ==
  /\ got' = Append(got, Head(Page(k)))
  /\ queue' = Tail(Page(k))
  /\ consumer' = "free"

TakeQueued ==
  /\ Idle \/ consumer = "woken"
  /\ queue # <<>>
  /\ got' = Append(got, Head(queue))
  /\ queue' = Tail(queue)
  /\ consumer' = "free"
  /\ UNCHANGED <<kind, sizes, cursor, more, load, ready, history>>

Stop ==
  /\ Idle \/ consumer = "woken"
  /\ queue = <<>> /\ load = 0 /\ ~more
  /\ consumer' = "ended"
  /\ UNCHANGED <<kind, sizes, queue, cursor, more, load, ready, got, history>>

-----------------------------------------------------------------------------
(* AsyncPaginator.                                                         *)

MutantFailed(k) ==
  /\ cursor' = k + 1 /\ more' = ~Last(k) /\ load' = 0 /\ ready' = FALSE
  /\ consumer' = "free"
  /\ UNCHANGED <<queue, got>>

(* An error is handed out; the next poll loads the same page.              *)
Failed(k) ==
  /\ cursor' = k /\ more' = TRUE /\ load' = 0 /\ ready' = FALSE
  /\ consumer' = "free"
  /\ UNCHANGED <<queue, got>>

MutantLoaded(k) ==
  /\ Advance(k) /\ load' = 0 /\ ready' = FALSE
  /\ IF sizes[k] > 0 THEN HandOut(k)
     ELSE /\ consumer' = "ended"
          /\ UNCHANGED <<queue, got>>

MutantLoadedAsleep(k) ==
  /\ Advance(k) /\ load' = 0 /\ ready' = FALSE
  /\ IF sizes[k] > 0 THEN HandOut(k)
     ELSE /\ consumer' = IF Last(k) THEN "ended" ELSE "awaiting"
          /\ UNCHANGED <<queue, got>>

(* The page is there at the first poll of its load; if it is empty, the    *)
(* stream wakes its own task to be polled again.                            *)
Loaded(k) ==
  /\ Advance(k) /\ load' = 0 /\ ready' = FALSE
  /\ IF sizes[k] > 0 THEN HandOut(k)
     ELSE /\ consumer' = IF Last(k) THEN "ended" ELSE "woken"
          /\ UNCHANGED <<queue, got>>

Pending(k) ==
  /\ cursor' = k /\ more' = TRUE /\ load' = k /\ ready' = FALSE
  /\ consumer' = "awaiting"
  /\ UNCHANGED <<queue, got>>

(* A load is started, and polled at once.                                  *)
Start(k) == Pending(k) \/ Loaded(k) \/ Failed(k)

Polled == kind = "async" /\ (Idle \/ consumer = "woken") /\ queue = <<>>

PollStart ==
  /\ Polled /\ load = 0 /\ more
  /\ Start(cursor)
  /\ UNCHANGED <<kind, sizes, history>>

(* The consumer asks again while the load it gave up on is under way.      *)
PollPending ==
  /\ Polled /\ load # 0 /\ ~ready
  /\ consumer' = "awaiting"
  /\ UNCHANGED <<kind, sizes, queue, cursor, more, load, ready, got, history>>

(* The load has an answer: an empty page is followed by the next load.     *)
PollReady ==
  /\ Polled /\ load # 0 /\ ready
  /\ \/ IF sizes[load] = 0 /\ ~Last(load) THEN Start(load + 1) ELSE Loaded(load)
     \/ /\ load' = 0 /\ ready' = FALSE /\ consumer' = "free"
        /\ UNCHANGED <<queue, cursor, more, got>>
  /\ UNCHANGED <<kind, sizes, history>>

(* External: the answer of the service wakes the task that waits for it.   *)
Answer ==
  /\ load # 0 /\ ~ready
  /\ ready' = TRUE
  /\ consumer' = IF consumer = "awaiting" THEN "woken" ELSE consumer
  /\ UNCHANGED <<kind, sizes, queue, cursor, more, load, got, history>>

(* The consumer gives up waiting; the load stays with the stream.          *)
Abandon ==
  /\ consumer \in {"awaiting", "woken"}
  /\ consumer' = "free"
  /\ UNCHANGED <<kind, sizes, queue, cursor, more, load, ready, got, history>>

-----------------------------------------------------------------------------
(* SyncPaginator.                                                          *)

(* The iterator answers None to an empty page, the last one or not.        *)
NextLoads ==
  /\ kind = "sync" /\ Idle /\ queue = <<>> /\ more
  /\ Advance(cursor)
  /\ IF sizes[cursor] > 0 THEN HandOut(cursor)
     ELSE consumer' = "ended" /\ UNCHANGED <<queue, got>>
  /\ UNCHANGED <<kind, sizes, load, ready, history>>

NextFails ==
  /\ kind = "sync" /\ Idle /\ queue = <<>> /\ more
  /\ consumer' = "free"
  /\ UNCHANGED <<kind, sizes, queue, cursor, more, load, ready, got, history>>

CollectBegin ==
  /\ kind = "sync" /\ Idle
  /\ consumer' = "collecting"
  /\ collected' = queue
  /\ queue' = <<>>
  /\ UNCHANGED <<kind, sizes, cursor, more, load, ready, got, lost, order, since>>

CollectPage ==
  /\ consumer = "collecting" /\ more
  /\ collected' = collected \o Page(cursor)
  /\ Advance(cursor)
  /\ UNCHANGED <<kind, sizes, queue, load, ready, consumer, got, lost,
                 order, since>>

(* The error is all that is returned: what was collected is dropped.       *)
CollectFails ==
  /\ consumer = "collecting" /\ more
  /\ lost' = lost \union Elements(collected)
  /\ collected' = <<>>
  /\ consumer' = "free"
  /\ UNCHANGED <<kind, sizes, queue, cursor, more, load, ready, got, order, since>>

CollectEnd ==
  /\ consumer = "collecting" /\ ~more
  /\ got' = got \o collected
  /\ collected' = <<>>
  /\ consumer' = "free"
  /\ UNCHANGED <<kind, sizes, queue, cursor, more, load, ready, lost, order, since>>

-----------------------------------------------------------------------------
(* Both.                                                                   *)

(* What next_page overtakes: items in the queue, or the load of a page.    *)
Overtaking ==
  /\ order' = IF load # 0 \/ queue # <<>> THEN "overtaken" ELSE order
  /\ since' = IF load \in 1..(since - 1) THEN load ELSE since

MutantNextPage ==
  /\ Idle /\ more
  /\ got' = got \o Page(cursor)
  /\ consumer' = "free"
  /\ Overtaking
  /\ more' = ~Last(cursor)
  /\ UNCHANGED <<kind, sizes, queue, cursor, load, ready, collected, lost>>

(* A page as a whole, whatever is queued or being loaded.  When it fails    *)
(* nothing has changed.                                                     *)
NextPage ==
  /\ Idle /\ more
  /\ got' = got \o Page(cursor)
  /\ Advance(cursor)
  /\ consumer' = "free"
  /\ Overtaking
  /\ UNCHANGED <<kind, sizes, queue, load, ready, collected, lost>>

Poll == TakeQueued \/ Stop \/ PollStart \/ PollPending \/ PollReady

Next ==
  \/ Poll \/ Answer \/ Abandon
  \/ NextLoads \/ NextFails
  \/ CollectBegin \/ CollectPage \/ CollectFails \/ CollectEnd
  \/ NextPage

Spec == Init /\ [][Next]_vars

(* A request is answered, and the executor polls a task that was woken; it *)
(* owes nothing to one that was not.                                        *)
FairSpec == Spec /\ WF_vars(Answer) /\ WF_vars(consumer = "woken" /\ Poll)

-----------------------------------------------------------------------------
(* Properties.                                                             *)

(* Every variable has its type, and while there is more the cursor names a *)
(* page.                                                                    *)
TypeOK ==
  /\ kind \in {"async", "sync"} /\ sizes \in Lists
  /\ queue \in Seq(Nat \X Nat) /\ got \in Seq(Nat \X Nat)
  /\ collected \in Seq(Nat \X Nat) /\ lost \subseteq Nat \X Nat
  /\ cursor \in Nat /\ more \in BOOLEAN /\ (more => cursor \in DOMAIN sizes)
  /\ load \in {0} \union DOMAIN sizes /\ ready \in BOOLEAN
  /\ consumer \in {"free", "awaiting", "woken", "ended", "collecting"}
  /\ order \in {"kept", "overtaken"} /\ since \in Nat

Handed == got \o collected \o queue

(* Iterating yields the items in the order of the list, each once, over     *)
(* empty pages, errors, abandoned waits and whole pages taken in between,   *)
(* as long as no page overtakes items that are queued or being loaded.      *)
Precedes(x, y) == x[1] < y[1] \/ (x[1] = y[1] /\ x[2] < y[2])
InOrder ==
  order = "kept" =>
    \A i, j \in DOMAIN Handed : i < j => Precedes(Handed[i], Handed[j])

(* An item is handed out twice only if next_page was called while the       *)
(* stream was loading (both then load the page the cursor names), and then  *)
(* only from the page of that load on: however far a late load or its error *)
(* takes the cursor back, it never reaches an earlier page.                  *)
AtMostOnce ==
  \A i, j \in DOMAIN Handed :
    i # j /\ Handed[i] = Handed[j] => Handed[i][1] >= since

(* Every item of a page the cursor has passed was handed out, or will be,   *)
(* unless a collect_all that failed has dropped it: no error, abandoned     *)
(* wait or overlapping load makes the paginator skip one.                    *)
NothingLost ==
  \A k \in 1..(cursor - 1) :
    Elements(Page(k)) \subseteq Elements(Handed) \union lost

(* When they say that they are over, the stream and the iterator have        *)
(* handed out every item before the cursor (but for those a failed           *)
(* collect_all of the iterator has dropped), and only the iterator says so   *)
(* before the end of the list: right after an empty page.                    *)
EndIsEnd ==
  consumer = "ended" =>
    /\ \A k \in 1..(cursor - 1) :
         Elements(Page(k)) \subseteq
           Elements(got) \union (IF kind = "sync" THEN lost ELSE {})
    /\ cursor <= Len(sizes) => kind = "sync" /\ cursor > 1 /\ sizes[cursor - 1] = 0

(* A task that waits for the stream is woken until it has an item, an error *)
(* or the end, over any number of empty pages.                               *)
Yields ==
  consumer \in {"awaiting", "woken"} ~> consumer \notin {"awaiting", "woken"}
=============================================================================
