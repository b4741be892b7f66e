----------------------------- MODULE Collections -----------------------------
(***************************************************************************)
(* The list of a studio's outputs and the collections that users sort them *)
(* into.  An addition reads the collection and the highest position before *)
(* it inserts; a deletion counts what is in the collection before it       *)
(* deletes it, and the database deletes with it what is there by then.     *)
(* The links of a task's outputs are replaced whenever the task is         *)
(* recorded, by any process.                                               *)
(***************************************************************************)
EXTENDS Naturals, FiniteSets

CONSTANTS Coll, Handler, MaxRequests        \* the collections; the requests under way at once; a bound on them

VARIABLES
    shelf,      \* the collections and their items; the links of outputs; a clock
    clerk       \* per request: what it is about to do, and what it has read

vars == <<shelf, clerk>>

Output == {1, 2}                             \* the outputs, oldest first
Idle  == [does |-> "nothing"]

TypeOK ==
    /\ shelf.there \subseteq Coll
    /\ \A x \in shelf.items : x.coll \in Coll /\ x.asset \in Output
    /\ shelf.links \subseteq [asset : Output, id : Nat]
    /\ shelf.asked \in 0..MaxRequests /\ DOMAIN clerk = Handler

ItemsOf(c)    == {x \in shelf.items : x.coll = c}
LinksOf(a)    == {l \in shelf.links : l.asset = a}
Now           == shelf.clock
Begins(h, r)  == /\ clerk[h] = Idle /\ shelf.asked < MaxRequests
                 /\ clerk' = [clerk EXCEPT ![h] = r]
                 /\ shelf' = [shelf EXCEPT !.clock = @ + 1, !.asked = @ + 1]
Ends(h)       == clerk' = [clerk EXCEPT ![h] = Idle]

-----------------------------------------------------------------------------
(* The collections.                                                        *)

NextOrder(c) == LET orders == {x.order : x \in ItemsOf(c)}
                IN  IF orders = {} THEN 10 ELSE 10 + CHOOSE n \in orders : \A m \in orders : m <= n

(* An asset that is in the collection already stays where it is.           *)
Looks(h, c, a) ==
    /\ c \in shelf.there /\ LinksOf(a) # {} /\ ~\E x \in ItemsOf(c) : x.asset = a
    /\ Begins(h, [does |-> "add", coll |-> c, asset |-> a, order |-> NextOrder(c), at |-> Now])

(* The insertion fails if the collection has gone or the item has come.    *)
Inserts(h) ==
    LET r == clerk[h]
    IN  /\ r.does = "add" /\ Ends(h)
        /\ shelf' = IF r.coll \notin shelf.there \/ \E x \in ItemsOf(r.coll) : x.asset = r.asset THEN shelf
                    ELSE [shelf EXCEPT !.clock = @ + 1, !.items = @ \cup
                             {[coll |-> r.coll, asset |-> r.asset, order |-> r.order, asked |-> r.at, put |-> Now]}]

(* Whatever is read first: what is under the key goes, or nothing does.    *)
TakesOut ==
    /\ shelf.asked < MaxRequests
    /\ \E x \in shelf.items : shelf' = [shelf EXCEPT !.items = @ \ {x}, !.asked = @ + 1]
    /\ UNCHANGED clerk

(* Only an empty collection is deleted.                                    *)
Deletable_Any(c) == TRUE
Deletable(c) == ItemsOf(c) = {}
Counts(h, c) ==
    /\ c \in shelf.there /\ Deletable(c)
    /\ Begins(h, [does |-> "delete", coll |-> c, at |-> Now])

Deletes(h) ==
    LET r == clerk[h]
    IN  /\ r.does = "delete" /\ Ends(h)
        /\ shelf' = [shelf EXCEPT !.there = @ \ {r.coll}, !.items = @ \ ItemsOf(r.coll)]

-----------------------------------------------------------------------------
(* The outputs.  A process that records a task deletes the links it has    *)
(* read, as far as they are still there, and inserts its own.              *)

Reads(h, a) == Begins(h, [does |-> "record", asset |-> a, links |-> LinksOf(a)])
Records(h) ==
    LET r == clerk[h]
    IN  /\ r.does = "record" /\ Ends(h)
        /\ shelf' = [shelf EXCEPT !.clock = @ + 1,
               !.links = (@ \ r.links) \cup {[asset |-> r.asset, id |-> Now]}]

(* The list of a collection, of what is in none, or of all: the newest     *)
(* output first, in pages of one link, and how many outputs the list says.  *)
Filters   == {"none", "all"} \cup shelf.there
Shown(a, f) == CASE f = "all" -> TRUE
                 [] f = "none" -> ~\E x \in shelf.items : x.asset = a
                 [] OTHER -> \E x \in ItemsOf(f) : x.asset = a
Newer(k, l)   == k.asset > l.asset \/ (k.asset = l.asset /\ k.id > l.id)
Listed(f)     == {l \in shelf.links : Shown(l.asset, f)}
Page(f, n)    == {l.asset : l \in {k \in Listed(f) : Cardinality({m \in Listed(f) : Newer(m, k)}) = n - 1}}
Total(f)      == Cardinality({l.asset : l \in Listed(f)})

(* The items of a collection, by their positions.                          *)
Before(x, y) == x.order < y.order \/ (x.order = y.order /\ x.asset < y.asset)

Init ==
    /\ \E links \in {{}, {[asset |-> 1, id |-> 0], [asset |-> 2, id |-> 1]}} :
           shelf = [there |-> Coll, items |-> {}, links |-> links, clock |-> 2, asked |-> 0]
    /\ clerk = [h \in Handler |-> Idle]

Next ==
    \/ TakesOut
    \/ \E h \in Handler :
          \/ Inserts(h) \/ Deletes(h) \/ Records(h)
          \/ \E c \in Coll, a \in Output : Looks(h, c, a)
          \/ \E c \in Coll : Counts(h, c)
          \/ \E a \in Output : Reads(h, a)

-----------------------------------------------------------------------------
(* What a deletion takes with its collection has been added since it       *)
(* counted, and not before: only empty collections are deleted.            *)
DeletesOnlyLatecomers ==
    \A h \in Handler : clerk[h].does = "delete" => \A x \in ItemsOf(clerk[h].coll) : x.put >= clerk[h].at

(* The items of a collection are shown in the order in which they were     *)
(* added, also after some were taken out, unless two additions overlapped. *)
ShownAsAdded ==
    \A x, y \in shelf.items : x.coll = y.coll /\ x.put < y.asked => Before(x, y)

(* The pages of a list show every output of it, as many as the list says,  *)
(* and each once, unless two processes have linked one output twice.       *)
Doubled == \E k, l \in shelf.links : k # l /\ k.asset = l.asset
PagesWhole ==
    \A f \in Filters :
        /\ UNION {Page(f, n) : n \in 1..Cardinality(shelf.links)} = {a \in Output : LinksOf(a) # {} /\ Shown(a, f)}
        /\ ~Doubled => \A n \in 1..Cardinality(shelf.links) : Page(f, n) # {} <=> n <= Total(f)
=============================================================================
