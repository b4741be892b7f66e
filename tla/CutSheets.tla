------------------------------ MODULE CutSheets ------------------------------
(***************************************************************************)
(* The cuts of a finished cut job: how they are listed, selected, handed   *)
(* over to the prompts or to a batch, and packed.  A cut appears once per  *)
(* path.  A request that hands cuts over reads how often they were used,   *)
(* asks for a confirmation if they were, and writes the count it has read  *)
(* plus one; several requests overlap.                                     *)
(***************************************************************************)
EXTENDS Naturals, Sequences, FiniteSets

CONSTANTS Clerk, MaxUse                     \* the requests under way at once; a bound on the counts

VARIABLES
    cuts,           \* in reading order: its path, flag, how often it was used, and for what it was handed over
    clerk           \* per request: what it has read

vars == <<cuts, clerk>>

Uses     == {"prompt", "batch"}
Filters  == [use : {"any", "unused", "prompt", "batch"}, flags : SUBSET {"thin", "error"}, query : {"any", "p"}]

(* What the filters let through, in reading order, of each path the first. *)
InUse(f, c) ==
    CASE f.use = "any"    -> TRUE
      [] f.use = "unused" -> \A u \in Uses : c.used[u] = 0
      [] OTHER            -> c.used[f.use] > 0
OncePerPath(s) == SelectSeq([i \in DOMAIN s |-> [cut |-> s[i], first |-> \A j \in 1..(i - 1) : s[j].path # s[i].path]],
                            LAMBDA r : r.first)
Flagged(f, s) == IF f.flags = {} THEN s ELSE SelectSeq(s, LAMBDA r : r.cut.flag \in f.flags)
Asked(f, c) == f.query = "any" \/ c.path = f.query

(* The list asks the database for a page of paths; with flags it goes      *)
(* through the cuts itself, and leaves the query out.                      *)
Listed(f) ==
    Flagged(f, OncePerPath(SelectSeq(cuts, LAMBDA c : InUse(f, c) /\ (f.flags # {} \/ Asked(f, c)))))
Page(f, n) == SubSeq(Listed(f), 2 * n - 1, IF 2 * n < Len(Listed(f)) THEN 2 * n ELSE Len(Listed(f)))

(* The selection of everything that the filters let through.               *)
Selection(f) == Flagged(f, OncePerPath(SelectSeq(cuts, LAMBDA c : InUse(f, c) /\ Asked(f, c))))

(* A request reads the cuts it was asked for; none of them may be broken,  *)
(* and none may be used before unless the user has confirmed it.           *)
Times(i)    == cuts[i].used["prompt"] + cuts[i].used["batch"]
Reused(i)   == Times(i) > 0
Usable(ids) == \A i \in ids : cuts[i].flag # "error"
Begins(r) ==
    /\ clerk[r].ids = {}
    /\ \E ids \in {{1}, {1, 2}}, use \in Uses, confirmed \in BOOLEAN :
           /\ Usable(ids) /\ \A i \in ids : Times(i) < MaxUse
           /\ confirmed \/ \A i \in ids : ~Reused(i)
           /\ clerk' = [clerk EXCEPT ![r] = [ids |-> ids, use |-> use, read |-> [i \in DOMAIN cuts |-> IF i \in ids THEN cuts[i].used[use] ELSE 0],
                                             confirmed |-> confirmed]]
    /\ UNCHANGED cuts

Counted(r, i) == clerk[r].read[i] + 1
HandsOver(r) ==
    LET s == clerk[r]
    IN  /\ s.ids # {}
        /\ cuts' = [i \in DOMAIN cuts |->
               IF i \notin s.ids THEN cuts[i]
               ELSE [cuts[i] EXCEPT !.used[s.use] = Counted(r, i),
                                    !.given = @ \cup {s.use}, !.unasked = IF s.confirmed THEN @ ELSE @ + 1]]
        /\ clerk' = [clerk EXCEPT ![r] = [ids |-> {}, use |-> "prompt", read |-> <<>>, confirmed |-> FALSE]]

(* Two cuts, or two of one path, as jobs before a change have left them.   *)
Init ==
    /\ \E second \in {"p", "q"}, flag \in {"none", "thin", "error"} :
           cuts = [i \in 1..2 |-> [path |-> IF i = 1 THEN "p" ELSE second, flag |-> IF i = 1 THEN "thin" ELSE flag,
                                   used |-> [u \in Uses |-> 0], given |-> {}, unasked |-> 0]]
    /\ clerk = [r \in Clerk |-> [ids |-> {}, use |-> "prompt", read |-> <<>>, confirmed |-> FALSE]]

Next == \E r \in Clerk : Begins(r) \/ HandsOver(r)

-----------------------------------------------------------------------------
(* "Select all" takes what the pages of the list show under the same       *)
(* filters, which a function in Python and a query decide independently:   *)
(* unless the filters are flags and a query, for then the list leaves the  *)
(* query out and the selection does not.                                   *)
SelectsWhatIsListed ==
    \A f \in Filters : f.flags = {} \/ f.query = "any" =>
        Selection(f) = Page(f, 1) \o Page(f, 2)

(* Counts are lost when requests overlap, but a cut that was handed over   *)
(* counts as used, for what it was handed over, and no other does.  Nobody *)
(* hands a cut over unasked, except those who had read it before the first *)
(* of them was done.                                                       *)
UseIsSeen ==
    \A i \in DOMAIN cuts :
        /\ {u \in Uses : cuts[i].used[u] > 0} = cuts[i].given
        /\ cuts[i].unasked <= Cardinality(Clerk)
=============================================================================
